---------------------------- MODULE Spec2Model ----------------------------
(***************************************************************************)
(* Model of the OPN_IaC configuration engine:                              *)
(*   - the conflict detector (services/deployment_service.py), which reads *)
(*     the Django tables VLAN, NetworkInterface, Container, PortForward;   *)
(*   - the tables' writers (services/sync_service.py, admin.py);           *)
(*   - the configuration service (services/config_manager.py) with its     *)
(*     remote and document backends;                                       *)
(*   - the deploy endpoint and the deployment orchestrator                 *)
(*     (api/endpoints/container.py, services/container_service.py).        *)
(***************************************************************************)
EXTENDS Integers, Sequences, FiniteSets, TLC

VARIABLES
    VLAN,              \* rows of models.VLAN, in primary-key order
    NetworkInterface,  \* rows of models.NetworkInterface, in primary-key order
    Container,         \* rows of models.Container, in primary-key order
    PortForward,       \* rows of models.PortForward, in primary-key order
    DeploymentLog,     \* rows of models.DeploymentLog, in the order they were created
    validation,        \* <<>> or <<r>>: the last result of validate_deployment, with its input
    service,           \* per instance of OPNsenseConfigService: config_path, api_config, use_api, root
    file,              \* the document stored at the configured path: <<>> or <<document>>
    backup,            \* the copy at OPNSENSE_CONFIG_PATH + ".bak": <<>> or <<the document>>
    remote,            \* the VLANs held by the appliance behind the remote API
    remote_interfaces, \* the interfaces held by the appliance behind the remote API
    uuids,             \* how many identifiers have been drawn
    touched,           \* per instance: has it called the remote API, has it opened the document
    docker,            \* per name: <<>> or <<the container the Docker daemon holds>>
    pc,                \* per request handler: the step it is at
    req,               \* per request handler: <<>> or <<the ContainerCreate it handles>>
    idx,               \* per request handler: port mappings already forwarded
    response,          \* per request handler: <<>> or <<the endpoint's answer>>
    issued,            \* per request handler: the calls made for the request, in order
    raised,            \* per request handler: the exceptions its steps raised
    created,           \* per request handler: <<>> or <<the ContainerOut of create_container>>
    deployed,          \* the workloads deployed with success so far
    calls,             \* <<>> or <<the last call of the configuration service, with its outcome>>
    manager            \* the tree held by the OPNsenseConfigManager of Sample_Py

orm == <<VLAN, NetworkInterface, Container, PortForward, DeploymentLog>>
engine == <<service, file, backup, remote, remote_interfaces, uuids, touched, docker, pc,
            req, idx, response, issued, raised, created, deployed, calls, manager>>

-----------------------------------------------------------------------------
(* Bounds and value domains *)

\* most rows held by the four tables together (conflict-detector specification)
MaxRows == 2

Names == {"web1", "db"}
VlanTags == {100, 150}
Parents == {"igc0", "igc2"}
IPs == {"10.0.0.5", "10.0.150.10"}
MACs == {"aa:bb:cc:dd:ee:ff", "02:42:0a:00:96:0b"}
HostPorts == {8080}
ContainerPorts == {80}
Protocols == {"tcp", "udp"}

\* sequences over S of length at most n
RECURSIVE SeqsUpTo(_, _)
SeqsUpTo(S, n) ==
    IF n = 0 THEN {<<>>}
    ELSE LET shorter == SeqsUpTo(S, n - 1)
         IN  shorter \cup {Append(s, x) : s \in {t \in shorter : Len(t) = n - 1}, x \in S}

\* f"Container {name} VLAN": the description the orchestrator gives the VLAN it creates
VlanMarker(name) == "Container " \o name \o " VLAN"

VlanDescriptions == {VlanMarker(n) : n \in Names} \cup {"Container other-app VLAN"}

\* rows the tables can hold
VlanRows ==
    [parent_if : Parents, vlan_tag : VlanTags, description : VlanDescriptions]
InterfaceRows == [name : {"lan"}, ipaddr : IPs \cup {"dhcp"}]
PortMappings ==
    [host_port : HostPorts, container_port : ContainerPorts, protocol : Protocols]
Mapping(proto) == [host_port |-> 8080, container_port |-> 80, protocol |-> proto]
\* the port lists of requests, and those of stored workloads
RequestPorts == {<<>>, <<Mapping("tcp")>>, <<Mapping("udp")>>,
                 <<Mapping("tcp"), Mapping("udp")>>}
StoredPorts == {<<>>, <<Mapping("tcp")>>}
ContainerRows ==
    [name : Names, ip_address : IPs, mac_address : MACs,
     ports : StoredPorts]
PortForwardRows ==
    [src_port : {ToString(p) : p \in HostPorts}, protocol : Protocols,
     dst_ip : IPs, dst_port : {ToString(p) : p \in ContainerPorts},
     enabled : BOOLEAN]

\* ContainerCreate.dict(): what the deploy endpoint hands to the detector
NetworkConfigs ==
    [vlan_id : VlanTags, ip_address : IPs, mac_address : MACs,
     parent_interface : Parents, allow_internet : BOOLEAN]
Deployments ==
    [name : Names, network_config : NetworkConfigs, ports : RequestPorts]
\* the requests the detector is examined on: it reads neither the parent
\* interface nor the internet flag
DetectorInputs ==
    {d \in Deployments : /\ d.network_config.parent_interface = "igc2"
                          /\ d.network_config.allow_internet}

-----------------------------------------------------------------------------
(* QuerySet helpers *)

\* QuerySet.filter(...) is SelectSeq: the rows satisfying the test, in
\* primary-key order.

\* QuerySet.first(): <<>> for None, else <<the first row>>
first(rows) == IF rows = <<>> THEN <<>> ELSE <<Head(rows)>>

\* ports__contains=[{"host_port": hp, "protocol": proto}] on the JSON list
ports_contains(ports, hp, proto) ==
    \E i \in 1..Len(ports) : ports[i].host_port = hp /\ ports[i].protocol = proto

-----------------------------------------------------------------------------
(* DeploymentService *)

Categories == {"vlan", "ip", "mac", "port"}

\* the VLAN check of detect_conflicts (lines 35-40)
vlan_conflicts(deployment) ==
    LET vlan_id == deployment.network_config.vlan_id
        existing_vlan == first(SelectSeq(VLAN, LAMBDA v : v.vlan_tag = vlan_id))
    IN  IF existing_vlan # <<>>
           /\ existing_vlan[1].description # VlanMarker(deployment.name)
        THEN <<"VLAN " \o ToString(vlan_id) \o " is already in use by '"
                \o existing_vlan[1].description \o "'">>
        ELSE <<>>

\* ip_conflicts without .exclude(name=...): a workload collides with its own record
ip_conflicts_no_exclude(deployment) ==
    LET ip_address == deployment.network_config.ip_address
        existing_iface ==
            first(SelectSeq(NetworkInterface, LAMBDA r : r.ipaddr = ip_address))
        existing_container ==
            first(SelectSeq(Container, LAMBDA c : c.ip_address = ip_address))
    IN  (IF existing_iface # <<>> THEN <<"IP address " \o ip_address>> ELSE <<>>)
        \o
        (IF existing_container # <<>> THEN <<"IP address " \o ip_address>> ELSE <<>>)

\* the IP check of detect_conflicts (lines 42-53)
ip_conflicts(deployment) ==
    LET ip_address == deployment.network_config.ip_address
        existing_iface ==
            first(SelectSeq(NetworkInterface, LAMBDA r : r.ipaddr = ip_address))
        existing_container ==
            first(SelectSeq(Container,
                LAMBDA c : c.ip_address = ip_address /\ c.name # deployment.name))
    IN  (IF existing_iface # <<>>
         THEN <<"IP address " \o ip_address \o " is already assigned to interface '"
                 \o existing_iface[1].name \o "'">>
         ELSE <<>>)
        \o
        (IF existing_container # <<>>
         THEN <<"IP address " \o ip_address \o " is already assigned to container '"
                 \o existing_container[1].name \o "'">>
         ELSE <<>>)

\* mac_conflicts looking only at the first row holding the address, excluded or not
mac_conflicts_first_only(deployment) ==
    LET mac_address == deployment.network_config.mac_address
        existing_mac_container ==
            first(SelectSeq(Container, LAMBDA c : c.mac_address = mac_address))
    IN  IF existing_mac_container # <<>>
           /\ existing_mac_container[1].name # deployment.name
        THEN <<"MAC address " \o mac_address>>
        ELSE <<>>

\* the MAC check of detect_conflicts (lines 55-60)
mac_conflicts(deployment) ==
    LET mac_address == deployment.network_config.mac_address
        existing_mac_container ==
            first(SelectSeq(Container,
                LAMBDA c : c.mac_address = mac_address /\ c.name # deployment.name))
    IN  IF existing_mac_container # <<>>
        THEN <<"MAC address " \o mac_address \o " is already assigned to container '"
                \o existing_mac_container[1].name \o "'">>
        ELSE <<>>

\* one iteration of the port loop of detect_conflicts (lines 64-84)
port_conflicts_of(deployment, port) ==
    LET host_port == port.host_port
        protocol == port.protocol
        existing_port ==
            first(SelectSeq(PortForward,
                LAMBDA f : f.src_port = ToString(host_port) /\ f.protocol = protocol))
        existing_container_port ==
            first(SelectSeq(Container,
                LAMBDA c : ports_contains(c.ports, host_port, protocol)
                           /\ c.name # deployment.name))
        what == "Port " \o ToString(host_port) \o "/" \o protocol
    IN  (IF existing_port # <<>>
         THEN <<what \o " is already forwarded to " \o existing_port[1].dst_ip
                 \o ":" \o existing_port[1].dst_port>>
         ELSE <<>>)
        \o
        (IF existing_container_port # <<>>
         THEN <<what \o " is already used by container '"
                 \o existing_container_port[1].name \o "'">>
         ELSE <<>>)

\* the port loop of detect_conflicts (lines 62-84)
RECURSIVE port_conflicts_from(_, _)
port_conflicts_from(deployment, ports) ==
    IF ports = <<>> THEN <<>>
    ELSE port_conflicts_of(deployment, Head(ports))
         \o port_conflicts_from(deployment, Tail(ports))

port_conflicts(deployment) == port_conflicts_from(deployment, deployment.ports)

\* DeploymentService.detect_conflicts: the report, empty categories removed
detect_conflicts(deployment) ==
    LET conflicts ==
            [k \in Categories |->
                CASE k = "vlan" -> vlan_conflicts(deployment)
                  [] k = "ip"   -> ip_conflicts(deployment)
                  [] k = "mac"  -> mac_conflicts(deployment)
                  [] k = "port" -> port_conflicts(deployment)]
    IN  [k \in {c \in Categories : conflicts[c] # <<>>} |-> conflicts[k]]

\* DeploymentService.validate_deployment
validate_deployment(deployment) ==
    LET conflicts == detect_conflicts(deployment)
    IN  IF DOMAIN conflicts # {}
        THEN [valid |-> FALSE, conflicts |-> conflicts,
              message |-> "Deployment would conflict with existing configuration"]
        ELSE [valid |-> TRUE,
              message |-> "Deployment validation successful"]


-----------------------------------------------------------------------------
(* Writers of the tables *)

rows_total == Len(VLAN) + Len(NetworkInterface) + Len(Container) + Len(PortForward)

\* VLAN.Meta.unique_together (one server): no two rows share (parent_if, vlan_tag)
vlan_rows_unique(rows) ==
    \A i, j \in 1..Len(rows) :
        (rows[i].parent_if = rows[j].parent_if /\ rows[i].vlan_tag = rows[j].vlan_tag)
        => i = j

\* NetworkInterface.Meta.unique_together (one server): no two rows share name
interface_rows_unique(rows) ==
    \A i, j \in 1..Len(rows) : rows[i].name = rows[j].name => i = j

\* a row put at place k of a table: primary keys are uuid4, so a new row can
\* come anywhere in primary-key order
insert_at(rows, k, row) == SubSeq(rows, 1, k - 1) \o <<row>> \o SubSeq(rows, k, Len(rows))
remove_at(rows, k) == SubSeq(rows, 1, k - 1) \o SubSeq(rows, k + 1, Len(rows))

\* OPNsenseSyncService.sync_vlans: the server's rows are replaced by the response's
sync_vlans(rows) ==
    /\ vlan_rows_unique(rows)
    /\ VLAN' = rows
    /\ UNCHANGED <<NetworkInterface, Container, PortForward, DeploymentLog>>

\* OPNsenseSyncService.sync_interfaces
sync_interfaces(rows) ==
    /\ interface_rows_unique(rows)
    /\ NetworkInterface' = rows
    /\ UNCHANGED <<VLAN, Container, PortForward, DeploymentLog>>

\* OPNsenseSyncService.sync_port_forwards: only the rows of type port_forward
\* are kept, and enabled is the negation of the response's disabled
sync_port_forwards(items) ==
    LET kept == SelectSeq(items, LAMBDA it : it.type = "port_forward")
    IN  /\ PortForward' =
              [k \in 1..Len(kept) |->
                  [src_port |-> kept[k].source_port, protocol |-> kept[k].protocol,
                   dst_ip |-> kept[k].target, dst_port |-> kept[k].target_port,
                   enabled |-> ~kept[k].disabled]]
        /\ UNCHANGED <<VLAN, NetworkInterface, Container, DeploymentLog>>

\* items of the firewall/nat/searchRule response
NatItems ==
    [type : {"port_forward"}, source_port : {ToString(p) : p \in HostPorts},
     protocol : Protocols, target : IPs,
     target_port : {ToString(p) : p \in ContainerPorts}, disabled : BOOLEAN]
    \cup
    [type : {"nat"}, source_port : {"8080"}, protocol : {"tcp"}, target : {"10.0.0.5"},
     target_port : {"80"}, disabled : {FALSE}]

\* ContainerAdmin (admin.site): a Container row added; name is unique
admin_add_container(row, k) ==
    /\ \A i \in 1..Len(Container) : Container[i].name # row.name
    /\ Container' = insert_at(Container, k, row)
    /\ UNCHANGED <<VLAN, NetworkInterface, PortForward, DeploymentLog>>

\* ContainerAdmin (admin.site): a Container row deleted, and with it the
\* DeploymentLog rows that refer to it (on_delete=CASCADE)
admin_delete_container(k) ==
    /\ Container' = remove_at(Container, k)
    /\ DeploymentLog' = SelectSeq(DeploymentLog,
                                  LAMBDA row : row.container # Container[k].name)
    /\ UNCHANGED <<VLAN, NetworkInterface, PortForward>>

-----------------------------------------------------------------------------
(* OPNsenseConfigService: one instance per importing module.  A method is  *)
(* an operator from the instance (self), the state it can reach (st: its   *)
(* in-memory tree, the stored document, the appliance, the uuids drawn)    *)
(* and the fate of its one external call, to the outcome                   *)
(* [st, raised, value]: raised is <<>> or <<the exception>>.               *)

Instances == {"container", "network"}

\* os.environ.get('OPNSENSE_CONFIG_PATH') is None, or the path
NoPath == ""
ConfigPath == "/conf/config.xml"

\* fate of an HTTP request or a file write: it works, it fails in transport
\* or on disk, or (a remote mutation) it is answered with a failure result
Fates == {"ok", "error", "rejected"}

Ok(st, value) == [st |-> st, raised |-> <<>>, value |-> <<value>>]
Raise(st, kind) == [st |-> st, raised |-> <<kind>>, value |-> <<>>]

\* remote mode as soon as the URL is set
use_api_of_url(api_config) == api_config.url # ""

\* __init__ line 36
use_api_of(api_config) ==
    api_config.url # "" /\ api_config.key # "" /\ api_config.secret # ""

\* the tree: the vlans section (<<>> when absent, else <<its vlan elements>>)
\* and the names of the sections the service does not interpret
count_children(doc) ==
    (IF doc.interfaces = <<>> THEN 0 ELSE 1) + (IF doc.vlans = <<>> THEN 0 ELSE 1)
    + Cardinality(doc.foreign)

\* `not self.root`: None, or an Element without children
root_falsy(root) == root = <<>> \/ count_children(root[1]) = 0

\* _load_config (lines 43-51)
_load_config(self, st) ==
    IF self.config_path = NoPath
    THEN Raise(st, "TypeError")
    ELSE IF st.file = <<>>
         THEN Raise([st EXCEPT !.document = TRUE], "FileNotFoundError")
         ELSE Ok([st EXCEPT !.root = st.file, !.document = TRUE], "loaded")

\* __init__ (lines 20-41): the instance constructed from the environment
\* over the stored document
OPNsenseConfigService(environ, stored) ==
    LET self == [config_path |-> environ.config_path,
                 api_config |-> environ.api_config,
                 use_api |-> use_api_of(environ.api_config)]
        st0 == [root |-> <<>>, file |-> stored, document |-> FALSE]
        loaded == IF ~self.use_api /\ self.config_path # NoPath /\ stored # <<>>
                  THEN _load_config(self, st0).st
                  ELSE st0
    IN  [self |-> self, root |-> loaded.root, document |-> loaded.document]

\* `if not self.root: self._load_config()`
ensure_loaded(self, st) ==
    IF root_falsy(st.root) THEN _load_config(self, st) ELSE Ok(st, "loaded")

\* the text of an element read back from a file that was written with the
\* text "": the writer emits an empty tag, the parser yields None
None == "<None>"

\* the children of an element as ET.parse reads them after tree.write
reparsed(children) ==
    [k \in DOMAIN children |-> IF children[k] = "" THEN None ELSE children[k]]

\* the document as tree.write (line 60) leaves it in the file
written(doc) ==
    LET again(section) ==
            IF section = <<>> THEN <<>>
            ELSE <<[k \in 1..Len(section[1]) |->
                       [section[1][k] EXCEPT !.children = reparsed(@)]]>>
    IN  [doc EXCEPT !.interfaces = again(@), !.vlans = again(@)]

\* a save that refuses a tree in which two VLANs carry the same parent and
\* tag
_save_config_unique(self, st, fate) ==
    IF root_falsy(st.root)
    THEN Raise(st, "ValueError")
    ELSE IF /\ st.root[1].vlans # <<>>
            /\ \E j, k \in 1..Len(st.root[1].vlans[1]) :
                   /\ j # k
                   /\ st.root[1].vlans[1][j].children = st.root[1].vlans[1][k].children
    THEN Raise(st, "ValueError: VLAN already exists")
    ELSE IF fate = "error"
         THEN Raise([st EXCEPT !.document = TRUE], "OSError")
         ELSE Ok([st EXCEPT !.file = <<written(st.root[1])>>, !.document = TRUE],
                 "saved")

\* _save_config (lines 53-64)
_save_config(self, st, fate) ==
    IF root_falsy(st.root)
    THEN Raise(st, "ValueError")
    ELSE IF fate = "error"
         THEN Raise([st EXCEPT !.document = TRUE], "OSError")
         ELSE Ok([st EXCEPT !.file = <<written(st.root[1])>>, !.document = TRUE],
                 "saved")

\* _api_request (lines 66-96): the request reaches the appliance unless the
\* instance is not in remote mode or the transport fails
_api_request(self, st, fate) ==
    IF ~self.use_api
    THEN Raise(st, "ValueError")
    ELSE IF fate = "error"
         THEN Raise([st EXCEPT !.api = TRUE], "RequestException")
         ELSE Ok([st EXCEPT !.api = TRUE], "response")

\* int(text) for the texts the documents hold
ParsedInts == VlanTags \cup (0..7)
int(text) == CHOOSE n \in ParsedInts : ToString(n) = text

\* dict.get(key, default) on an element's children or a JSON object
get(data, key, default) == IF key \in DOMAIN data THEN data[key] ELSE default

\* VlanBase validators (api/models/network.py lines 59-69)
vlan_valid(vlan) ==
    /\ ~(vlan.vlan_tag < 1 \/ vlan.vlan_tag > 4094)
    /\ ~(vlan.pcp < 0 \/ vlan.pcp > 7)

\* the VlanOut built from one <vlan> element or one item of the response
\* (get_vlans lines 307-314 and 332-339)
vlan_out(data, uuid) ==
    [parent_if |-> get(data, "if", ""),
     vlan_tag |-> IF "tag" \in DOMAIN data THEN int(data["tag"]) ELSE 0,
     description |-> get(data, "descr", ""),
     pcp |-> IF "pcp" \in DOMAIN data THEN int(data["pcp"]) ELSE 0,
     uuid |-> uuid,
     vlanif |-> get(data, "vlanif", "")]

\* the list comprehension of get_vlans over the elements: it raises the
\* model's ValidationError at the first element that does not validate
vlans_out(elements) ==
    [k \in 1..Len(elements) |-> vlan_out(elements[k].children, elements[k].uuid)]

\* get_vlans (lines 300-342)
get_vlans(self, st, fate) ==
    IF self.use_api
    THEN LET r == _api_request(self, st, fate)
             vlans == vlans_out(r.st.remote)
         IN  IF r.raised # <<>> THEN r
             ELSE IF \E k \in 1..Len(vlans) : ~vlan_valid(vlans[k])
                  THEN Raise(r.st, "ValidationError")
                  ELSE Ok(r.st, vlans)
    ELSE LET r == ensure_loaded(self, st)
         IN  IF r.raised # <<>> THEN r
             ELSE IF r.st.root[1].vlans = <<>> THEN Ok(r.st, <<>>)
             ELSE LET vlans == vlans_out(r.st.root[1].vlans[1])
                  IN  IF \E k \in 1..Len(vlans) : ~vlan_valid(vlans[k])
                      THEN Raise(r.st, "ValidationError")
                      ELSE Ok(r.st, vlans)

\* str(uuid.uuid4()): the n-th identifier drawn
uuid4(n) == "uuid-" \o ToString(n)

\* f"{data.parent_if}_vlan{data.vlan_tag}"
vlanif_of(parent_if, vlan_tag) == parent_if \o "_vlan" \o ToString(vlan_tag)

\* VlanOut(**data.dict(), uuid=..., vlanif=...)
created_vlan_out(data, uuid) ==
    [parent_if |-> data.parent_if, vlan_tag |-> data.vlan_tag,
     description |-> data.description, pcp |-> data.pcp,
     uuid |-> uuid, vlanif |-> vlanif_of(data.parent_if, data.vlan_tag)]

\* the <vlan> element create_vlan appends (lines 385-399): one child per key
\* of data.dict(), named as the key, then vlanif
created_vlan_element(data, uuid) ==
    [uuid |-> uuid,
     children |-> [parent_if |-> data.parent_if,
                   vlan_tag |-> ToString(data.vlan_tag),
                   description |-> data.description,
                   pcp |-> ToString(data.pcp),
                   vlanif |-> vlanif_of(data.parent_if, data.vlan_tag)]]

\* the appliance storing the VLAN of a POST it accepts, in its own field names
appliance_vlan(data, uuid) ==
    [uuid |-> uuid,
     children |-> [if |-> data.parent_if,
                   tag |-> ToString(data.vlan_tag),
                   descr |-> data.description,
                   pcp |-> ToString(data.pcp),
                   vlanif |-> vlanif_of(data.parent_if, data.vlan_tag)]]

\* create_vlan (lines 352-409)
create_vlan(self, st, data, fate) ==
    IF self.use_api
    THEN LET r == _api_request(self, st, fate)
             uuid_str == uuid4(st.uuids + 1)
         IN  IF r.raised # <<>> THEN r
             ELSE IF fate = "rejected"
                  THEN Raise(r.st, "ValueError")
                  ELSE Ok([r.st EXCEPT
                              !.remote = Append(@, appliance_vlan(data, uuid_str)),
                              !.uuids = @ + 1],
                          created_vlan_out(data, uuid_str))
    ELSE LET r == ensure_loaded(self, st)
             vlan_uuid == uuid4(st.uuids + 1)
             elements == IF r.st.root[1].vlans = <<>> THEN <<>>
                         ELSE r.st.root[1].vlans[1]
             grown == [r.st EXCEPT
                          !.root = <<[@[1] EXCEPT !.vlans =
                              <<Append(elements, created_vlan_element(data, vlan_uuid))>>]>>,
                          !.uuids = @ + 1]
             saved == _save_config(self, grown, fate)
         IN  IF r.raised # <<>> THEN r
             ELSE IF saved.raised # <<>> THEN saved
             ELSE Ok(saved.st, created_vlan_out(data, vlan_uuid))

\* the placeholders (lines 508-635), in both modes
get_firewall_rules(self, st) == Ok(st, <<>>)
create_firewall_rule(self, st, data) == Raise(st, "NotImplementedError")
get_port_forwards(self, st) == Ok(st, <<>>)
create_port_forward(self, st, data) == Raise(st, "NotImplementedError")
get_static_mappings(self, st, interface) == Ok(st, <<>>)
create_static_mapping(self, st, interface, data) == Raise(st, "NotImplementedError")

\* an apply that reloads the appliance and drops the VLANs it held
apply_firewall_changes_reloading(self, st) ==
    Ok([st EXCEPT !.remote = <<>>, !.file = <<>>],
       [success |-> TRUE, message |-> "Changes applied"])

apply_firewall_changes(self, st) ==
    Ok(st, [success |-> TRUE, message |-> "Changes applied"])
apply_dhcp_changes(self, st) ==
    Ok(st, [success |-> TRUE, message |-> "Changes applied"])

-----------------------------------------------------------------------------
(* OPNsenseConfigService: interfaces.  An interface element is             *)
(* [tag, children]; of the InterfaceBase fields with an empty-string       *)
(* default (gateway, spoofmac, media, mediaopt) the model carries gateway, *)
(* and it leaves out the two that default to None (subnet, mtu).           *)

\* the texts the ipaddr validator's pattern x.x.x.x accepts
DottedTexts == IPs \cup {"10.0.0.1"}

\* InterfaceBase as pydantic validates it (api/models/network.py lines 6-32):
\* no str field is None, and ipaddr is "dhcp" or dotted
interface_valid(out) ==
    /\ None \notin {out.if_name, out.description, out.ipaddr, out.uuid, out.gateway}
    /\ out.ipaddr = "dhcp" \/ out.ipaddr \in DottedTexts

\* the InterfaceOut built from one element or one item of the response
\* (get_interfaces lines 106-119 and 137-150)
interface_out(name, data, fresh) ==
    [name |-> name,
     if_name |-> get(data, "if", ""),
     description |-> get(data, "descr", ""),
     ipaddr |-> get(data, "ipaddr", "dhcp"),
     enabled |-> get(data, "enable", None) = "1",
     uuid |-> get(data, "uuid", fresh),
     gateway |-> get(data, "gateway", "")]

\* how many of the first k elements carry no uuid: each takes a fresh one
unidentified(elements, k) ==
    Cardinality({j \in 1..k : "uuid" \notin DOMAIN elements[j].children})

\* the list get_interfaces builds, the n-th identifier being the last drawn
interfaces_out(elements, n) ==
    [k \in 1..Len(elements) |->
        interface_out(elements[k].tag, elements[k].children,
                      uuid4(n + unidentified(elements, k)))]

\* the listing of a section: the elements, validated in order
listed_interfaces(st, elements) ==
    LET interfaces == interfaces_out(elements, st.uuids)
        drawn == [st EXCEPT !.uuids = @ + unidentified(elements, Len(elements))]
    IN  IF \E k \in 1..Len(interfaces) : ~interface_valid(interfaces[k])
        THEN Raise(drawn, "ValidationError")
        ELSE Ok(drawn, interfaces)

\* get_interfaces (lines 99-153)
get_interfaces(self, st, fate) ==
    IF self.use_api
    THEN LET r == _api_request(self, st, fate)
         IN  IF r.raised # <<>> THEN r
             ELSE listed_interfaces(r.st, r.st.remote_interfaces)
    ELSE LET r == ensure_loaded(self, st)
         IN  IF r.raised # <<>> THEN r
             ELSE IF r.st.root[1].interfaces = <<>> THEN Ok(r.st, <<>>)
             ELSE listed_interfaces(r.st, r.st.root[1].interfaces[1])

\* the search of an element by name that looks at the first element only
position_first_only(elements, name) ==
    IF Len(elements) > 0 /\ elements[1].tag = name THEN 1 ELSE 0

\* the position of the element named name, 0 when there is none
position(elements, name) ==
    IF \E k \in 1..Len(elements) : elements[k].tag = name
    THEN CHOOSE k \in 1..Len(elements) :
             /\ elements[k].tag = name
             /\ \A j \in 1..(k - 1) : elements[j].tag # name
    ELSE 0

\* get_interface (lines 155-161)
get_interface(self, st, name, fate) ==
    LET r == get_interfaces(self, st, fate)
    IN  IF r.raised # <<>> THEN r
        ELSE IF \E k \in 1..Len(r.value[1]) : r.value[1][k].name = name
        THEN Ok(r.st, r.value[1][CHOOSE k \in 1..Len(r.value[1]) :
                                     /\ r.value[1][k].name = name
                                     /\ \A j \in 1..(k - 1) : r.value[1][j].name # name])
        ELSE Raise(r.st, "ValueError: Interface not found")

\* '1' if value else '0'
flag(value) == IF value THEN "1" ELSE "0"

\* the element create_interface appends (lines 193-208): a uuid child, then
\* one child per key of data.dict() but name, enabled written as enable
created_interface_element(data, uuid) ==
    [tag |-> data.name,
     children |-> [uuid |-> uuid, if_name |-> data.if_name,
                   description |-> data.description, ipaddr |-> data.ipaddr,
                   enable |-> flag(data.enabled), gateway |-> data.gateway]]

\* InterfaceOut(**data.dict(), uuid=interface_uuid)
created_interface_out(data, uuid) ==
    [name |-> data.name, if_name |-> data.if_name, description |-> data.description,
     ipaddr |-> data.ipaddr, enabled |-> data.enabled, uuid |-> uuid,
     gateway |-> data.gateway]

\* the appliance storing the interface of a POST it accepts, in the names
\* its listing uses
appliance_interface(data, uuid) ==
    [tag |-> data.name,
     children |-> [uuid |-> uuid, if |-> data.if_name, descr |-> data.description,
                   ipaddr |-> data.ipaddr, enable |-> flag(data.enabled),
                   gateway |-> data.gateway]]

\* the interfaces section of the tree, created when it is missing
interfaces_of(doc) == IF doc.interfaces = <<>> THEN <<>> ELSE doc.interfaces[1]

\* create_interface (lines 163-217); next is the fate of the listing that
\* follows an accepted POST
create_interface(self, st, data, fate, next) ==
    IF self.use_api
    THEN LET r == _api_request(self, st, fate)
             uuid_str == uuid4(st.uuids + 1)
         IN  IF r.raised # <<>> THEN r
             ELSE IF fate = "rejected" \/ position(r.st.remote_interfaces, data.name) # 0
             THEN Raise(r.st, "ValueError: Failed to create interface")
             ELSE get_interface(self,
                      [r.st EXCEPT !.remote_interfaces =
                                       Append(@, appliance_interface(data, uuid_str)),
                                   !.uuids = @ + 1],
                      data.name, next)
    ELSE LET r == ensure_loaded(self, st)
             interface_uuid == uuid4(st.uuids + 1)
             elements == interfaces_of(r.st.root[1])
             found == [r.st EXCEPT !.root = <<[@[1] EXCEPT !.interfaces = <<elements>>]>>]
             grown == [r.st EXCEPT
                          !.root = <<[@[1] EXCEPT !.interfaces =
                              <<Append(elements,
                                       created_interface_element(data, interface_uuid))>>]>>,
                          !.uuids = @ + 1]
             saved == _save_config(self, grown, fate)
         IN  IF r.raised # <<>> THEN r
             ELSE IF position(elements, data.name) # 0
             THEN Raise(found, "ValueError: Interface already exists")
             ELSE IF saved.raised # <<>> THEN saved
             ELSE Ok(saved.st, created_interface_out(data, interface_uuid))

\* the child a field of data.dict() is written to, and its text
\* (lines 201-208 and 248-257)
xml_key(field) == IF field = "enabled" THEN "enable" ELSE field
xml_text(field, value) == IF field = "enabled" THEN flag(value) ELSE value

\* the loop of update_interface over data.dict(): the fields the request
\* leaves unset are written with their defaults
updated_children_unset_too(children, data) ==
    [k \in DOMAIN children \cup {"enable", "description", "gateway"} |->
        IF k = "enable" THEN flag(get(data, "enabled", TRUE))
        ELSE IF k = "description" THEN get(data, "description", "")
        ELSE IF k = "gateway" THEN get(data, "gateway", "")
        ELSE children[k]]

\* data.dict(exclude_unset=True) is the request as the function from the
\* fields it sets to their values; the children after the loop of lines
\* 248-257 over it
updated_children(children, data) ==
    LET fields == DOMAIN data \ {"name"}
        keys == {xml_key(f) : f \in fields}
        field_of(k) == CHOOSE f \in fields : xml_key(f) = k
    IN  [k \in DOMAIN children \cup keys |->
            IF k \in keys THEN xml_text(field_of(k), data[field_of(k)])
            ELSE children[k]]

\* the appliance applying the fields of a PUT it accepts, in its own names
appliance_key(field) ==
    IF field = "enabled" THEN "enable"
    ELSE IF field = "if_name" THEN "if"
    ELSE IF field = "description" THEN "descr"
    ELSE field
appliance_updated(children, data) ==
    LET fields == DOMAIN data \ {"name"}
        keys == {appliance_key(f) : f \in fields}
        field_of(k) == CHOOSE f \in fields : appliance_key(f) = k
    IN  [k \in DOMAIN children \cup keys |->
            IF k \in keys THEN xml_text(field_of(k), data[field_of(k)])
            ELSE children[k]]

\* update_interface (lines 219-267)
update_interface(self, st, name, data, fate, next) ==
    IF self.use_api
    THEN LET r == _api_request(self, st, fate)
             at == position(r.st.remote_interfaces, name)
         IN  IF r.raised # <<>> THEN r
             ELSE IF fate = "rejected" \/ at = 0
             THEN Raise(r.st, "ValueError: Failed to update interface")
             ELSE get_interface(self,
                      [r.st EXCEPT !.remote_interfaces[at].children =
                                       appliance_updated(@, data)],
                      name, next)
    ELSE LET r == ensure_loaded(self, st)
             elements == interfaces_of(r.st.root[1])
             at == position(elements, name)
             changed == [r.st EXCEPT !.root = <<[@[1] EXCEPT !.interfaces =
                            <<[elements EXCEPT ![at].children =
                                                   updated_children(@, data)]>>]>>]
             saved == _save_config(self, changed, fate)
         IN  IF r.raised # <<>> THEN r
             ELSE IF r.st.root[1].interfaces = <<>>
             THEN Raise(r.st, "ValueError: No interfaces found in configuration")
             ELSE IF at = 0 THEN Raise(r.st, "ValueError: Interface not found")
             ELSE IF saved.raised # <<>> THEN saved
             ELSE get_interface(self, saved.st, name, next)

\* the sequence without its k-th element
without(elements, k) ==
    [j \in 1..(Len(elements) - 1) |-> IF j < k THEN elements[j] ELSE elements[j + 1]]

\* delete_interface (lines 269-297)
delete_interface(self, st, name, fate) ==
    IF self.use_api
    THEN LET r == _api_request(self, st, fate)
             at == position(r.st.remote_interfaces, name)
         IN  IF r.raised # <<>> THEN r
             ELSE IF fate = "rejected" \/ at = 0 THEN Ok(r.st, FALSE)
             ELSE Ok([r.st EXCEPT !.remote_interfaces = without(@, at)], TRUE)
    ELSE LET r == ensure_loaded(self, st)
             elements == interfaces_of(r.st.root[1])
             at == position(elements, name)
             removed == [r.st EXCEPT !.root = <<[@[1] EXCEPT !.interfaces =
                            <<without(elements, at)>>]>>]
             saved == _save_config(self, removed, fate)
         IN  IF r.raised # <<>> THEN r
             ELSE IF r.st.root[1].interfaces = <<>>
             THEN Raise(r.st, "ValueError: No interfaces found in configuration")
             ELSE IF at = 0 THEN Raise(r.st, "ValueError: Interface not found")
             ELSE IF saved.raised # <<>> THEN saved
             ELSE Ok(saved.st, TRUE)

-----------------------------------------------------------------------------
(* OPNsenseConfigService: a VLAN by its identifier *)

\* the position of the first VLAN element with the identifier, 0 if none
vlan_position(elements, uuid_str) ==
    IF \E k \in 1..Len(elements) : elements[k].uuid = uuid_str
    THEN CHOOSE k \in 1..Len(elements) :
             /\ elements[k].uuid = uuid_str
             /\ \A j \in 1..(k - 1) : elements[j].uuid # uuid_str
    ELSE 0

\* get_vlan (lines 344-350)
get_vlan(self, st, uuid_str, fate) ==
    LET r == get_vlans(self, st, fate)
    IN  IF r.raised # <<>> THEN r
        ELSE IF \E k \in 1..Len(r.value[1]) : r.value[1][k].uuid = uuid_str
        THEN Ok(r.st, r.value[1][CHOOSE k \in 1..Len(r.value[1]) :
                                     /\ r.value[1][k].uuid = uuid_str
                                     /\ \A j \in 1..(k - 1) : r.value[1][j].uuid # uuid_str])
        ELSE Raise(r.st, "ValueError: VLAN not found")

\* str(value) of a field of VlanUpdate
vlan_text(field, value) ==
    IF field \in {"vlan_tag", "pcp"} THEN ToString(value) ELSE value

\* the children of a <vlan> element after lines 448-464: one child per key
\* of the update, named as the key, and vlanif rewritten if it is there
updated_vlan_children(children, data, current) ==
    LET parent_if == get(data, "parent_if", current.parent_if)
        vlan_tag == get(data, "vlan_tag", current.vlan_tag)
        keyed == [k \in DOMAIN children \cup DOMAIN data |->
                     IF k \in DOMAIN data THEN vlan_text(k, data[k]) ELSE children[k]]
    IN  IF /\ "parent_if" \in DOMAIN data \/ "vlan_tag" \in DOMAIN data
           /\ "vlanif" \in DOMAIN keyed
        THEN [keyed EXCEPT !["vlanif"] = vlanif_of(parent_if, vlan_tag)]
        ELSE keyed

\* the appliance applying the fields of a PUT it accepts, in its own names
appliance_vlan_key(field) ==
    IF field = "parent_if" THEN "if"
    ELSE IF field = "vlan_tag" THEN "tag"
    ELSE IF field = "description" THEN "descr"
    ELSE field
appliance_vlan_updated(children, data) ==
    LET keys == {appliance_vlan_key(f) : f \in DOMAIN data}
        field_of(k) == CHOOSE f \in DOMAIN data : appliance_vlan_key(f) = k
        keyed == [k \in DOMAIN children \cup keys |->
                     IF k \in keys THEN vlan_text(field_of(k), data[field_of(k)])
                     ELSE children[k]]
    IN  [keyed EXCEPT !["vlanif"] = vlanif_of(keyed["if"], int(keyed["tag"]))]

\* the vlans section of the tree
vlans_of(doc) == IF doc.vlans = <<>> THEN <<>> ELSE doc.vlans[1]

\* update_vlan (lines 411-470)
update_vlan(self, st, uuid_str, data, fate, next) ==
    IF self.use_api
    THEN LET r == _api_request(self, st, fate)
             at == vlan_position(r.st.remote, uuid_str)
         IN  IF r.raised # <<>> THEN r
             ELSE IF fate = "rejected" \/ at = 0
             THEN Raise(r.st, "ValueError: Failed to update VLAN")
             ELSE get_vlan(self,
                      [r.st EXCEPT !.remote[at].children =
                                       appliance_vlan_updated(@, data)],
                      uuid_str, next)
    ELSE LET r == ensure_loaded(self, st)
             elements == vlans_of(r.st.root[1])
             at == vlan_position(elements, uuid_str)
             current == get_vlan(self, r.st, uuid_str, "ok")
             changed == [current.st EXCEPT !.root = <<[@[1] EXCEPT !.vlans =
                            <<[elements EXCEPT ![at].children =
                                   updated_vlan_children(@, data, current.value[1])]>>]>>]
             saved == _save_config(self, changed, fate)
         IN  IF r.raised # <<>> THEN r
             ELSE IF r.st.root[1].vlans = <<>>
             THEN Raise(r.st, "ValueError: No VLANs found in configuration")
             ELSE IF at = 0 THEN Raise(r.st, "ValueError: VLAN not found")
             ELSE IF current.raised # <<>> THEN current
             ELSE IF saved.raised # <<>> THEN saved
             ELSE get_vlan(self, saved.st, uuid_str, next)

\* delete_vlan (lines 472-505)
delete_vlan(self, st, uuid_str, fate) ==
    IF self.use_api
    THEN LET r == _api_request(self, st, fate)
             at == vlan_position(r.st.remote, uuid_str)
         IN  IF r.raised # <<>> THEN r
             ELSE IF fate = "rejected" \/ at = 0 THEN Ok(r.st, FALSE)
             ELSE Ok([r.st EXCEPT !.remote = without(@, at)], TRUE)
    ELSE LET r == ensure_loaded(self, st)
             elements == vlans_of(r.st.root[1])
             at == vlan_position(elements, uuid_str)
             removed == [r.st EXCEPT !.root = <<[@[1] EXCEPT !.vlans =
                            <<without(elements, at)>>]>>]
             saved == _save_config(self, removed, fate)
         IN  IF r.raised # <<>> THEN r
             ELSE IF r.st.root[1].vlans = <<>>
             THEN Raise(r.st, "ValueError: No VLANs found in configuration")
             ELSE IF at = 0 THEN Raise(r.st, "ValueError: VLAN not found")
             ELSE IF saved.raised # <<>> THEN saved
             ELSE Ok(saved.st, TRUE)

-----------------------------------------------------------------------------
(* ContainerService: the workloads on the Docker daemon *)

\* fate of create_container's three requests: all work, or the first one
\* that fails
DockerFates == {"ok", "create_fails", "start_fails", "get_fails"}

\* _extract_network_config (lines 423-434): the placeholder every listed
\* container is given
_extract_network_config ==
    [vlan_id |-> 100, ip_address |-> "192.168.100.2",
     mac_address |-> "00:00:00:00:00:00", parent_interface |-> "igc2",
     allow_internet |-> TRUE]

\* the ContainerOut get_containers builds for one container (lines 91-103)
container_out(name, held) ==
    [name |-> name, status |-> held.status,
     network_config |-> _extract_network_config, ports |-> held.ports]

\* f"vlan{data.network_config.vlan_id}"
network_mode(data) == "vlan" \o ToString(data.network_config.vlan_id)

\* create_container (lines 119-165) on the daemon's containers dk: create
\* (refused when the name is taken), start, then get_container
create_container(dk, data, fate) ==
    LET made == [dk EXCEPT ![data.name] =
                        <<[status |-> "created", ports |-> data.ports,
                           network_mode |-> network_mode(data)]>>]
        started == [made EXCEPT ![data.name] =
                        <<[@[1] EXCEPT !.status = "running"]>>]
    IN  IF fate = "create_fails" \/ dk[data.name] # <<>>
        THEN [dk |-> dk, raised |-> <<"RequestException">>, value |-> <<>>]
        ELSE IF fate = "start_fails"
        THEN [dk |-> made, raised |-> <<"RequestException">>, value |-> <<>>]
        ELSE IF fate = "get_fails"
        THEN [dk |-> started, raised |-> <<"ValueError">>, value |-> <<>>]
        ELSE [dk |-> started, raised |-> <<>>,
              value |-> <<container_out(data.name, started[data.name][1])>>]

-----------------------------------------------------------------------------
(* ContainerService.deploy_container (lines 315-421), step by step *)

\* the loop of lines 330-335
vlan_exists(vlans, network_config) ==
    \E k \in 1..Len(vlans) :
        /\ vlans[k].parent_if = network_config.parent_interface
        /\ vlans[k].vlan_tag = network_config.vlan_id

\* VlanCreate(...) of lines 340-344
VlanCreate(data) ==
    [parent_if |-> data.network_config.parent_interface,
     vlan_tag |-> data.network_config.vlan_id,
     description |-> VlanMarker(data.name),
     pcp |-> 0]

\* f"opt{network_config.vlan_id}"
interface_name(data) == "opt" \o ToString(data.network_config.vlan_id)

\* DHCPStaticMappingCreate(...) of lines 354-359
DHCPStaticMappingCreate(data) ==
    [mac |-> data.network_config.mac_address,
     ipaddr |-> data.network_config.ip_address,
     hostname |-> data.name]

\* FirewallRuleCreate(...) of lines 371-379
FirewallRuleCreate(data) ==
    [type |-> "pass", interface |-> interface_name(data),
     source |-> interface_name(data), destination |-> "any"]

\* PortForwardCreate(...) of lines 389-396
PortForwardCreate(data, port) ==
    [interface |-> "wan", protocol |-> port.protocol,
     src_port |-> ToString(port.host_port),
     dst_ip |-> data.network_config.ip_address,
     dst_port |-> ToString(port.container_port)]

\* the steps wrapped in `try: ... except NotImplementedError`
\* (lines 351-363, 369-382, 388-399, 411-416)
GuardedSteps ==
    {"create_static_mapping", "create_firewall_rule", "create_port_forward",
     "apply_firewall_changes", "apply_dhcp_changes"}

\* every exception reaches the outer handler
handler_reraise(step, kind) == "reraise"

\* no exception reaches the outer handler
handler_warning(step, kind) == "warning"

\* which handler an exception of a step reaches: the step's own
\* `except NotImplementedError` (a warning), or the outer `except Exception`
\* of lines 419-421 (log and re-raise)
handler(step, kind) ==
    IF step \in GuardedSteps /\ kind = "NotImplementedError"
    THEN "warning"
    ELSE "reraise"

\* the static mapping followed at once by the workload
after_static_mapping_workload(data) == "create_container"

\* the step after the static mapping, after the egress rule and after the
\* k-th port forward: the branches of lines 366 and 385
after_static_mapping(data) ==
    IF data.network_config.allow_internet THEN "create_firewall_rule"
    ELSE IF data.ports # <<>> THEN "create_port_forward"
    ELSE "create_container"
after_firewall_rule(data) ==
    IF data.ports # <<>> THEN "create_port_forward" ELSE "create_container"
after_port_forward(data, k) ==
    IF k < Len(data.ports) THEN "create_port_forward" ELSE "create_container"

-----------------------------------------------------------------------------
(* The deploy endpoint over the orchestrator, the configuration service    *)
(* and the Docker daemon.  The tables the detector reads are not written   *)
(* by a deployment; they are as the last synchronisation left them.        *)

\* Sample_Py's manager before a configuration is loaded: self.root is None
NoManager == <<>>

Procs == {"p1", "p2"}
\* the requests of this specification are handled one at a time
Sequential == {"p1"}

\* the state a method of instance s works on, and its write-back
Store(s) ==
    [root |-> service[s].root, file |-> file, remote |-> remote,
     remote_interfaces |-> remote_interfaces,
     uuids |-> uuids, api |-> touched[s].api, document |-> touched[s].document]
Commit(s, st) ==
    /\ service' = [service EXCEPT ![s].root = st.root]
    /\ file' = st.file
    /\ backup' = backup
    /\ remote' = st.remote
    /\ remote_interfaces' = st.remote_interfaces
    /\ uuids' = st.uuids
    /\ touched' = [touched EXCEPT ![s] = [api |-> st.api, document |-> st.document]]

\* the process environment the module-level instances are constructed in
ApiConfigs ==
    [url : {"", "https://fw.example"}, key : {"", "key"}, secret : {"", "secret"}]
Environments == [config_path : {NoPath, ConfigPath}, api_config : ApiConfigs]
Populated == [url |-> "https://fw.example", key |-> "key", secret |-> "secret"]
Unset == [url |-> "", key |-> "", secret |-> ""]
DeployEnvironments ==
    {[config_path |-> NoPath, api_config |-> Populated],
     [config_path |-> ConfigPath, api_config |-> Unset],
     [config_path |-> NoPath, api_config |-> Unset]}

\* the document stored at the configured path: none, an empty root, or a
\* root holding a section the service does not interpret
StoredDocuments ==
    {<<>>, <<[interfaces |-> <<>>, vlans |-> <<>>, foreign |-> {}]>>,
     <<[interfaces |-> <<>>, vlans |-> <<>>, foreign |-> {"system"}]>>}

\* the instances after import, and what their construction touched
Constructed(environ, stored) ==
    /\ service = [s \in Instances |->
                     LET made == OPNsenseConfigService(environ, stored)
                     IN  [config_path |-> made.self.config_path,
                          api_config |-> made.self.api_config,
                          use_api |-> made.self.use_api,
                          root |-> made.root]]
    /\ touched = [s \in Instances |->
                     [api |-> FALSE,
                      document |-> OPNsenseConfigService(environ, stored).document]]
    /\ file = stored
    /\ backup = <<>>
    /\ remote = <<>>
    /\ remote_interfaces = <<>>
    /\ uuids = 0

\* the requests the endpoint is examined on
Addresses ==
    {<<"10.0.150.10", "aa:bb:cc:dd:ee:ff">>, <<"10.0.150.10", "02:42:0a:00:96:0b">>,
     <<"10.0.0.5", "aa:bb:cc:dd:ee:ff">>}
DeployRequests ==
    {d \in Deployments :
        /\ d.network_config.vlan_id = 150
        /\ d.network_config.parent_interface = "igc2"
        /\ <<d.network_config.ip_address, d.network_config.mac_address>> \in Addresses
        /\ d.ports \in {<<>>, <<Mapping("tcp")>>}}

\* what the last synchronisation left in the tables
SyncedTables ==
    {[VLAN |-> <<>>, NetworkInterface |-> <<>>, PortForward |-> <<>>],
     [VLAN |-> <<[parent_if |-> "igc0", vlan_tag |-> 150,
                  description |-> "Container other-app VLAN"]>>,
      NetworkInterface |-> <<>>, PortForward |-> <<>>],
     [VLAN |-> <<>>,
      NetworkInterface |-> <<[name |-> "lan", ipaddr |-> "10.0.0.5"]>>,
      PortForward |-> <<[src_port |-> "8080", protocol |-> "tcp",
                         dst_ip |-> "10.0.0.5", dst_port |-> "80",
                         enabled |-> TRUE]>>]}

\* the endpoint's test with the rejection removed
never_rejected(result) == FALSE

\* the endpoint's test of line 112: `if not validation["valid"]`
rejected(result) == ~result.valid

\* POST /deploy (endpoint deploy_container, lines 99-133) up to the call of
\* the orchestrator
Deploy(p) ==
    /\ pc[p] \in {"idle", "done"}
    /\ \E data \in DeployRequests :
           LET result == validate_deployment(data)
           IN  /\ req' = [req EXCEPT ![p] = <<data>>]
               /\ issued' = [issued EXCEPT ![p] = <<"validate_deployment">>]
               /\ IF rejected(result)
                  THEN /\ pc' = [pc EXCEPT ![p] = "done"]
                       /\ response' = [response EXCEPT ![p] =
                              <<[success |-> FALSE, message |-> result.message,
                                 conflicts |-> result.conflicts]>>]
                  ELSE /\ pc' = [pc EXCEPT ![p] = "get_vlans"]
                       /\ response' = [response EXCEPT ![p] = <<>>]
    /\ raised' = [raised EXCEPT ![p] = <<>>]
    /\ idx' = [idx EXCEPT ![p] = 0]
    /\ created' = [created EXCEPT ![p] = <<>>]
    /\ UNCHANGED <<orm, validation, calls, manager, service, file, backup, remote, remote_interfaces, uuids,
                   touched,
                   docker, deployed>>

\* a step has returned or raised: control goes to the next step, or to the
\* outer handler
Proceed(p, step, exc, nxt) ==
    /\ issued' = [issued EXCEPT ![p] = Append(@, step)]
    /\ IF exc = <<>>
       THEN /\ pc' = [pc EXCEPT ![p] = nxt]
            /\ UNCHANGED raised
       ELSE /\ raised' = [raised EXCEPT ![p] =
                             Append(@, [step |-> step, kind |-> exc[1]])]
            /\ pc' = [pc EXCEPT ![p] =
                         IF handler(step, exc[1]) = "warning" THEN nxt ELSE "failed"]

\* lines 327-335: list the VLANs and look for the requested (parent, tag)
GetVlans(p) ==
    /\ pc[p] = "get_vlans"
    /\ \E fate \in {"ok", "error"} :
           LET data == req[p][1]
               r == get_vlans(service["container"], Store("container"), fate)
           IN  /\ Commit("container", r.st)
               /\ Proceed(p, "get_vlans", r.raised,
                          IF r.raised = <<>> /\ vlan_exists(r.value[1], data.network_config)
                          THEN "create_static_mapping"
                          ELSE "create_vlan")
    /\ UNCHANGED <<orm, validation, calls, manager, docker, req, idx, response, created, deployed>>

\* lines 337-344
CreateVlan(p) ==
    /\ pc[p] = "create_vlan"
    /\ \E fate \in Fates :
           LET r == create_vlan(service["container"], Store("container"),
                                VlanCreate(req[p][1]), fate)
           IN  /\ Commit("container", r.st)
               /\ Proceed(p, "create_vlan", r.raised, "create_static_mapping")
    /\ UNCHANGED <<orm, validation, calls, manager, docker, req, idx, response, created, deployed>>

\* lines 346-363
CreateStaticMapping(p) ==
    /\ pc[p] = "create_static_mapping"
    /\ LET data == req[p][1]
           r == create_static_mapping(service["container"], Store("container"),
                                      interface_name(data),
                                      DHCPStaticMappingCreate(data))
       IN  /\ Commit("container", r.st)
           /\ Proceed(p, "create_static_mapping", r.raised, after_static_mapping(data))
    /\ UNCHANGED <<orm, validation, calls, manager, docker, req, idx, response, created, deployed>>

\* lines 365-382
CreateFirewallRule(p) ==
    /\ pc[p] = "create_firewall_rule"
    /\ LET data == req[p][1]
           r == create_firewall_rule(service["container"], Store("container"),
                                     FirewallRuleCreate(data))
       IN  /\ Commit("container", r.st)
           /\ Proceed(p, "create_firewall_rule", r.raised, after_firewall_rule(data))
    /\ UNCHANGED <<orm, validation, calls, manager, docker, req, idx, response, created, deployed>>

\* lines 384-399: one turn of the loop over data.ports
CreatePortForward(p) ==
    /\ pc[p] = "create_port_forward"
    /\ LET data == req[p][1]
           k == idx[p] + 1
           r == create_port_forward(service["container"], Store("container"),
                                    PortForwardCreate(data, data.ports[k]))
       IN  /\ Commit("container", r.st)
           /\ Proceed(p, "create_port_forward", r.raised, after_port_forward(data, k))
           /\ idx' = [idx EXCEPT ![p] = k]
    /\ UNCHANGED <<orm, validation, calls, manager, docker, req, response, created, deployed>>

\* lines 407-408
CreateContainer(p) ==
    /\ pc[p] = "create_container"
    /\ \E fate \in DockerFates :
           LET r == create_container(docker, req[p][1], fate)
           IN  /\ docker' = r.dk
               /\ created' = [created EXCEPT ![p] = r.value]
               /\ Proceed(p, "create_container", r.raised, "apply")
    /\ UNCHANGED <<orm, validation, calls, manager, service, file, backup, remote, remote_interfaces, uuids,
                   touched,
                   req, idx, response, deployed>>

\* the workload as the detector's tables would have to record it
deployment_record(data) ==
    [name |-> data.name, ip_address |-> data.network_config.ip_address,
     mac_address |-> data.network_config.mac_address, ports |-> data.ports]

\* lines 410-418, and the endpoint's success response (lines 122-127)
ApplyChanges(p) ==
    /\ pc[p] = "apply"
    /\ LET data == req[p][1]
           fw == apply_firewall_changes(service["container"], Store("container"))
           dhcp == apply_dhcp_changes(service["container"], fw.st)
           last == IF fw.raised # <<>> THEN fw ELSE dhcp
           step == IF fw.raised # <<>> THEN "apply_firewall_changes"
                   ELSE "apply_dhcp_changes"
       IN  /\ Commit("container", last.st)
           /\ issued' = [issued EXCEPT ![p] =
                  IF fw.raised # <<>> THEN Append(@, "apply_firewall_changes")
                  ELSE @ \o <<"apply_firewall_changes", "apply_dhcp_changes">>]
           /\ raised' = [raised EXCEPT ![p] =
                  IF last.raised = <<>> THEN @
                  ELSE Append(@, [step |-> step, kind |-> last.raised[1]])]
           /\ IF last.raised # <<>> /\ handler(step, last.raised[1]) = "reraise"
              THEN /\ pc' = [pc EXCEPT ![p] = "failed"]
                   /\ UNCHANGED <<response, deployed>>
              ELSE /\ pc' = [pc EXCEPT ![p] = "done"]
                   /\ response' = [response EXCEPT ![p] =
                          <<[success |-> TRUE,
                             message |-> "Container " \o data.name \o " deployed successfully",
                             container |-> created[p][1]]>>]
                   /\ deployed' = deployed \cup {deployment_record(data)}
    /\ UNCHANGED <<orm, validation, calls, manager, docker, req, idx, created>>

\* lines 419-421 re-raise; the endpoint's handler (lines 128-133) answers
DeployFailed(p) ==
    /\ pc[p] = "failed"
    /\ pc' = [pc EXCEPT ![p] = "done"]
    /\ response' = [response EXCEPT ![p] =
           <<[success |-> FALSE,
              message |-> "Failed to deploy container: " \o raised[p][Len(raised[p])].kind]>>]
    /\ UNCHANGED <<orm, validation, calls, manager, service, file, backup, remote, remote_interfaces, uuids,
                   touched,
                   docker, req, idx, issued, raised, created, deployed>>

-----------------------------------------------------------------------------
(* The conflict detector on its own: the tables are written by the sync    *)
(* service and the admin site, and validate_deployment is called on them.  *)

\* what the appliance can answer to the sync service's requests
VlanResponses == SeqsUpTo(VlanRows, MaxRows)
InterfaceResponses == SeqsUpTo(InterfaceRows, 1)
NatResponses == SeqsUpTo(NatItems, MaxRows)

SyncVlans ==
    /\ validation = <<>>
    /\ \E rows \in VlanResponses :
           /\ Len(rows) + Len(NetworkInterface) + Len(Container) + Len(PortForward)
                  <= MaxRows
           /\ sync_vlans(rows)
    /\ UNCHANGED <<validation, engine>>

SyncInterfaces ==
    /\ validation = <<>>
    /\ \E rows \in InterfaceResponses :
           /\ Len(VLAN) + Len(rows) + Len(Container) + Len(PortForward) <= MaxRows
           /\ sync_interfaces(rows)
    /\ UNCHANGED <<validation, engine>>

SyncPortForwards ==
    /\ validation = <<>>
    /\ \E items \in NatResponses :
           /\ Len(VLAN) + Len(NetworkInterface) + Len(Container) + Len(items)
                  <= MaxRows
           /\ sync_port_forwards(items)
    /\ UNCHANGED <<validation, engine>>

AdminAddContainer ==
    /\ validation = <<>>
    /\ rows_total < MaxRows
    /\ \E row \in ContainerRows, k \in 1..(Len(Container) + 1) :
           admin_add_container(row, k)
    /\ UNCHANGED <<validation, engine>>

AdminDeleteContainer ==
    /\ validation = <<>>
    /\ \E k \in 1..Len(Container) : admin_delete_container(k)
    /\ UNCHANGED <<validation, engine>>

\* a caller validates a request against the tables as they are
Validate ==
    /\ validation = <<>>
    /\ \E d \in DetectorInputs : validation' = <<validate_deployment(d)>>
    /\ UNCHANGED <<orm, engine>>

\* the result has been handed to the caller
Return ==
    /\ validation # <<>>
    /\ validation' = <<>>
    /\ UNCHANGED <<orm, engine>>

vars == <<VLAN, NetworkInterface, Container, PortForward, DeploymentLog, validation,
          service,
          file, backup, remote, remote_interfaces, uuids, touched, docker, pc, req,
          idx, response, issued, raised, created, deployed, calls, manager>>

InitDetect ==
    /\ VLAN = <<>>
    /\ NetworkInterface = <<>>
    /\ Container = <<>>
    /\ PortForward = <<>>
    /\ DeploymentLog = <<>>
    /\ validation = <<>>
    /\ Constructed([config_path |-> NoPath, api_config |-> Unset], <<>>)
    /\ docker = [n \in Names |-> <<>>]
    /\ pc = [p \in Procs |-> "idle"]
    /\ req = [p \in Procs |-> <<>>]
    /\ idx = [p \in Procs |-> 0]
    /\ response = [p \in Procs |-> <<>>]
    /\ issued = [p \in Procs |-> <<>>]
    /\ raised = [p \in Procs |-> <<>>]
    /\ created = [p \in Procs |-> <<>>]
    /\ deployed = {}
    /\ calls = <<>>
    /\ manager = NoManager

NextDetect ==
    \/ SyncVlans
    \/ SyncInterfaces
    \/ SyncPortForwards
    \/ AdminAddContainer
    \/ AdminDeleteContainer
    \/ Validate
    \/ Return

SpecDetect == InitDetect /\ [][NextDetect]_vars

-----------------------------------------------------------------------------
(* Deployments handled one at a time *)

Init ==
    /\ \E environ \in DeployEnvironments, stored \in StoredDocuments :
           /\ (environ.config_path = NoPath => stored = <<>>)
           /\ Constructed(environ, stored)
    /\ \E tables \in SyncedTables :
           /\ VLAN = tables.VLAN
           /\ NetworkInterface = tables.NetworkInterface
           /\ PortForward = tables.PortForward
    /\ DeploymentLog = <<>>
    /\ Container = <<>>
    /\ validation = <<>>
    /\ docker = [n \in Names |-> <<>>]
    /\ pc = [p \in Procs |-> "idle"]
    /\ req = [p \in Procs |-> <<>>]
    /\ idx = [p \in Procs |-> 0]
    /\ response = [p \in Procs |-> <<>>]
    /\ issued = [p \in Procs |-> <<>>]
    /\ raised = [p \in Procs |-> <<>>]
    /\ created = [p \in Procs |-> <<>>]
    /\ deployed = {}
    /\ calls = <<>>
    /\ manager = NoManager

Next ==
    \E p \in Sequential :
        \/ Deploy(p)
        \/ GetVlans(p)
        \/ CreateVlan(p)
        \/ CreateStaticMapping(p)
        \/ CreateFirewallRule(p)
        \/ CreatePortForward(p)
        \/ CreateContainer(p)
        \/ ApplyChanges(p)
        \/ DeployFailed(p)

Spec == Init /\ [][Next]_vars

-----------------------------------------------------------------------------
(* Two requests to POST /deploy handled at the same time by two workers of *)
(* one process: both run ContainerService.deploy_container on the same     *)
(* service object, their calls interleaved at the calls to the backend.    *)
(* Each worker handles one request.                                        *)

\* the requests ask for the same VLAN, address and host port
RaceRequests ==
    {d \in DeployRequests :
        /\ d.ports # <<>>
        /\ d.network_config.allow_internet
        /\ d.network_config.ip_address = "10.0.150.10"
        /\ d.network_config.mac_address = "aa:bb:cc:dd:ee:ff"}

InitRace ==
    /\ Init
    /\ service["container"].use_api \/ file # <<>>
    /\ VLAN = <<>> /\ NetworkInterface = <<>> /\ PortForward = <<>>

NextRace ==
    \E p \in Procs :
        \/ pc[p] = "idle" /\ Deploy(p) /\ req'[p][1] \in RaceRequests
        \/ GetVlans(p)
        \/ CreateVlan(p)
        \/ CreateStaticMapping(p)
        \/ CreateFirewallRule(p)
        \/ CreatePortForward(p)
        \/ CreateContainer(p)
        \/ ApplyChanges(p)
        \/ DeployFailed(p)

SpecRace == InitRace /\ [][NextRace]_vars

-----------------------------------------------------------------------------
(* The configuration service on its own: the VLAN operations called on     *)
(* each instance, in every process environment.                            *)

\* most VLANs created in one behaviour (configuration-service specification)
MaxVlans == 2

\* the VlanCreate bodies posted
VlanCreates ==
    [parent_if : {"igc2"}, vlan_tag : VlanTags, description : {"lab"}, pcp : {0}]

\* GET /vlans (list_vlans) and the orchestrator's listing: get_vlans on s
ListVlans(s) ==
    /\ \E fate \in {"ok", "error"} :
           Commit(s, get_vlans(service[s], Store(s), fate).st)
    /\ UNCHANGED <<orm, validation, calls, manager, docker, pc, req, idx, response, issued,
                   raised, created, deployed>>

\* POST /vlans (create_vlan) and the orchestrator's creation: create_vlan on s
PostVlan(s) ==
    /\ uuids < MaxVlans
    /\ \E data \in VlanCreates, fate \in Fates :
           Commit(s, create_vlan(service[s], Store(s), data, fate).st)
    /\ UNCHANGED <<orm, validation, calls, manager, docker, pc, req, idx, response, issued,
                   raised, created, deployed>>

InitBackend ==
    /\ \E environ \in Environments, stored \in StoredDocuments :
           Constructed(environ, stored)
    /\ VLAN = <<>>
    /\ NetworkInterface = <<>>
    /\ Container = <<>>
    /\ PortForward = <<>>
    /\ DeploymentLog = <<>>
    /\ validation = <<>>
    /\ docker = [n \in Names |-> <<>>]
    /\ pc = [p \in Procs |-> "idle"]
    /\ req = [p \in Procs |-> <<>>]
    /\ idx = [p \in Procs |-> 0]
    /\ response = [p \in Procs |-> <<>>]
    /\ issued = [p \in Procs |-> <<>>]
    /\ raised = [p \in Procs |-> <<>>]
    /\ created = [p \in Procs |-> <<>>]
    /\ deployed = {}
    /\ calls = <<>>
    /\ manager = NoManager

NextBackend ==
    \E s \in Instances :
        \/ ListVlans(s)
        \/ PostVlan(s)

SpecBackend == InitBackend /\ [][NextBackend]_vars

-----------------------------------------------------------------------------
(* The configuration service called through its endpoints: every method    *)
(* on each instance, over a remote, a document and an unconfigured         *)
(* environment.  calls keeps the last call with its outcome.               *)

\* most identifiers drawn in one behaviour
MaxDrawn == 2

\* the documents found at the configured path: none, a bare root, and one
\* with an interface, a VLAN and a section the service does not interpret
NativeDocument ==
    [interfaces |-> << <<[tag |-> "lan",
                          children |-> [if |-> "igc0", descr |-> "LAN",
                                        ipaddr |-> "10.0.0.1", enable |-> "1"]]>> >>,
     vlans |-> << <<[uuid |-> "vlan-0",
                     children |-> [if |-> "igc2", tag |-> "100", descr |-> "lab",
                                   pcp |-> "0", vlanif |-> "igc2_vlan100"]]>> >>,
     foreign |-> {"system"}]
ServiceDocuments ==
    {<<>>, <<[interfaces |-> <<>>, vlans |-> <<>>, foreign |-> {}]>>, <<NativeDocument>>}

\* the request bodies and path parameters the endpoints are called with
InterfaceNames == {"lan", "opt1"}
InterfaceCreates ==
    [name : InterfaceNames, if_name : {"igc1"}, description : {"dmz"},
     ipaddr : {"dhcp"}, enabled : {TRUE}, gateway : {""}]
InterfaceUpdates == {[enabled |-> FALSE], [description |-> "uplink"]}
VlanBodies ==
    [parent_if : {"igc2"}, vlan_tag : {0, 100, 150, 4095}, description : {"lab"},
     pcp : {0}]
VlanUpdates == {[vlan_tag |-> 150], [description |-> "edge"]}
VlanIds == {"vlan-0"} \cup {uuid4(n) : n \in 1..MaxDrawn}

\* the request of the end-to-end example, for the bodies of the placeholders
SampleRequest ==
    [name |-> "web1",
     network_config |-> [vlan_id |-> 150, ip_address |-> "10.0.150.10",
                         mac_address |-> "aa:bb:cc:dd:ee:ff",
                         parent_interface |-> "igc2", allow_internet |-> TRUE],
     ports |-> <<Mapping("tcp")>>]

\* the instance the endpoints of api/endpoints/network.py call
Endpoints == {"network"}

\* the call repeats the one before it: same method, instance and arguments
repeats(s, op, args) ==
    /\ calls # <<>>
    /\ calls[1].op = op
    /\ calls[1].instance = s
    /\ calls[1].args = args

\* method op of instance s, called with args, has ended with outcome r
Returned(s, op, args, r) ==
    /\ r.st.uuids <= MaxDrawn
    /\ Commit(s, r.st)
    /\ calls' = <<[op |-> op, instance |-> s, args |-> args,
                    again |-> repeats(s, op, args),
                    raised |-> r.raised, value |-> r.value]>>
    /\ UNCHANGED <<orm, validation, manager, docker, pc, req, idx, response, issued,
                   raised, created, deployed>>

DoGetInterfaces(s) ==
    \E fate \in {"ok", "error"} :
        Returned(s, "get_interfaces", <<>>, get_interfaces(service[s], Store(s), fate))

DoGetInterface(s) ==
    \E name \in InterfaceNames, fate \in {"ok", "error"} :
        Returned(s, "get_interface", <<name>>,
                 get_interface(service[s], Store(s), name, fate))

DoCreateInterface(s) ==
    \E data \in InterfaceCreates, fate \in Fates, next \in {"ok", "error"} :
        Returned(s, "create_interface", <<data>>,
                 create_interface(service[s], Store(s), data, fate, next))

DoUpdateInterface(s) ==
    \E name \in InterfaceNames, data \in InterfaceUpdates, fate \in Fates,
       next \in {"ok", "error"} :
        Returned(s, "update_interface", <<name, data>>,
                 update_interface(service[s], Store(s), name, data, fate, next))

DoDeleteInterface(s) ==
    \E name \in InterfaceNames, fate \in Fates :
        Returned(s, "delete_interface", <<name>>,
                 delete_interface(service[s], Store(s), name, fate))

DoGetVlans(s) ==
    \E fate \in {"ok", "error"} :
        Returned(s, "get_vlans", <<>>, get_vlans(service[s], Store(s), fate))

DoGetVlan(s) ==
    \E uuid_str \in VlanIds, fate \in {"ok", "error"} :
        Returned(s, "get_vlan", <<uuid_str>>,
                 get_vlan(service[s], Store(s), uuid_str, fate))

\* POST /vlans: the body is validated as a VlanCreate before the method runs
DoCreateVlan(s) ==
    \E data \in VlanBodies, fate \in Fates :
        Returned(s, "create_vlan", <<data>>,
                 IF vlan_valid(data)
                 THEN create_vlan(service[s], Store(s), data, fate)
                 ELSE Raise(Store(s), "ValidationError"))

DoUpdateVlan(s) ==
    \E uuid_str \in VlanIds, data \in VlanUpdates, fate \in Fates,
       next \in {"ok", "error"} :
        Returned(s, "update_vlan", <<uuid_str, data>>,
                 update_vlan(service[s], Store(s), uuid_str, data, fate, next))

DoDeleteVlan(s) ==
    \E uuid_str \in VlanIds, fate \in Fates :
        Returned(s, "delete_vlan", <<uuid_str>>,
                 delete_vlan(service[s], Store(s), uuid_str, fate))

DoGetFirewallRules(s) ==
    Returned(s, "get_firewall_rules", <<>>, get_firewall_rules(service[s], Store(s)))

DoCreateFirewallRule(s) ==
    Returned(s, "create_firewall_rule", <<>>,
             create_firewall_rule(service[s], Store(s), FirewallRuleCreate(SampleRequest)))

DoGetPortForwards(s) ==
    Returned(s, "get_port_forwards", <<>>, get_port_forwards(service[s], Store(s)))

DoCreatePortForward(s) ==
    Returned(s, "create_port_forward", <<>>,
             create_port_forward(service[s], Store(s),
                                 PortForwardCreate(SampleRequest, Mapping("tcp"))))

DoGetStaticMappings(s) ==
    Returned(s, "get_static_mappings", <<"opt150">>,
             get_static_mappings(service[s], Store(s), "opt150"))

DoCreateStaticMapping(s) ==
    Returned(s, "create_static_mapping", <<"opt150">>,
             create_static_mapping(service[s], Store(s), "opt150",
                                   DHCPStaticMappingCreate(SampleRequest)))

DoApplyFirewallChanges(s) ==
    Returned(s, "apply_firewall_changes", <<>>,
             apply_firewall_changes(service[s], Store(s)))

DoApplyDhcpChanges(s) ==
    Returned(s, "apply_dhcp_changes", <<>>, apply_dhcp_changes(service[s], Store(s)))

InitService ==
    /\ \E environ \in DeployEnvironments, stored \in ServiceDocuments :
           /\ (environ.config_path = NoPath => stored = <<>>)
           /\ Constructed(environ, stored)
    /\ VLAN = <<>>
    /\ NetworkInterface = <<>>
    /\ Container = <<>>
    /\ PortForward = <<>>
    /\ DeploymentLog = <<>>
    /\ validation = <<>>
    /\ docker = [n \in Names |-> <<>>]
    /\ pc = [p \in Procs |-> "idle"]
    /\ req = [p \in Procs |-> <<>>]
    /\ idx = [p \in Procs |-> 0]
    /\ response = [p \in Procs |-> <<>>]
    /\ issued = [p \in Procs |-> <<>>]
    /\ raised = [p \in Procs |-> <<>>]
    /\ created = [p \in Procs |-> <<>>]
    /\ deployed = {}
    /\ calls = <<>>
    /\ manager = NoManager

\* the VLAN, firewall and DHCP endpoints
NextService ==
    \E s \in Endpoints :
        \/ DoGetVlans(s)
        \/ DoGetVlan(s)
        \/ DoCreateVlan(s)
        \/ DoUpdateVlan(s)
        \/ DoDeleteVlan(s)
        \/ DoGetFirewallRules(s)
        \/ DoCreateFirewallRule(s)
        \/ DoGetPortForwards(s)
        \/ DoCreatePortForward(s)
        \/ DoGetStaticMappings(s)
        \/ DoCreateStaticMapping(s)
        \/ DoApplyFirewallChanges(s)
        \/ DoApplyDhcpChanges(s)

SpecService == InitService /\ [][NextService]_vars

\* the interface endpoints
NextInterfaces ==
    \E s \in Endpoints :
        \/ DoGetInterfaces(s)
        \/ DoGetInterface(s)
        \/ DoCreateInterface(s)
        \/ DoUpdateInterface(s)
        \/ DoDeleteInterface(s)

SpecInterfaces == InitService /\ [][NextInterfaces]_vars

-----------------------------------------------------------------------------
(* Sample_Py: the OPNsenseConfigManager and its command line.  manager is  *)
(* self.root (NoManager before a document is loaded), file the document at *)
(* its config_path; a <vlan> element is [uuid, children] as above.         *)

MaxManagerVlans == 2

\* the values of --interface and --tag (type=int) of the add-vlan command
ManagerParents == {"igc2"}
ManagerTags == {0, 1, 150, 4094, 4095}

\* the document at config_path: none, one without a vlans section, one with
SampleDocuments ==
    {<<>>, <<[interfaces |-> <<>>, vlans |-> <<>>, foreign |-> {"system"}]>>,
     <<[interfaces |-> <<>>, vlans |-> << <<>> >>, foreign |-> {"system"}]>>}

\* OPNsenseConfigManager.__init__ (lines 24-38): the configuration is
\* loaded when the path exists
OPNsenseConfigManager(stored) == stored

\* the <vlan> element add_vlan builds (lines 164-183); proto has no text
added_vlan_element(interface, tag, description, vlan_uuid) ==
    [uuid |-> vlan_uuid,
     children |-> [if |-> interface, tag |-> ToString(tag), pcp |-> "0",
                   proto |-> None, descr |-> description,
                   vlanif |-> interface \o "_vlan" \o ToString(tag)]]

\* add_vlan (lines 139-186) on the tree root with the identifier drawn; the
\* identifier of a call that raises is never seen and is not counted
add_vlan(root, interface, tag, description, vlan_uuid) ==
    IF root = <<>>
    THEN [root |-> root, raised |-> <<"AttributeError">>, value |-> <<>>]
    ELSE [root |-> <<[root[1] EXCEPT !.vlans =
                         <<Append(vlans_of(root[1]),
                                  added_vlan_element(interface, tag, description,
                                                     vlan_uuid))>>]>>,
          raised |-> <<>>,
          value |-> <<vlan_uuid>>]

\* the manager's get_vlans (lines 120-137): the children of every <vlan>
manager_get_vlans(root) ==
    IF root = <<>>
    THEN [raised |-> <<"AttributeError">>, value |-> <<>>]
    ELSE [raised |-> <<>>,
          value |-> <<[k \in 1..Len(vlans_of(root[1])) |->
                          vlans_of(root[1])[k].children]>>]

\* save_config (lines 71-99) to the original path, with backup_enabled as
\* constructed by default: the stored document, when there is one, is
\* copied to the backup first (fate "no_backup": the copy fails, which is
\* only warned about), then the tree is written (fate "error": the write
\* fails)
save_config(root, stored, kept, fate) ==
    LET copied == IF stored # <<>> /\ fate # "no_backup" THEN stored ELSE kept
    IN  IF root = <<>>
        THEN [file |-> stored, backup |-> copied, raised |-> <<"AttributeError">>]
        ELSE IF fate = "error"
        THEN [file |-> stored, backup |-> copied, raised |-> <<"OSError">>]
        ELSE [file |-> <<written(root[1])>>, backup |-> copied, raised |-> <<>>]

\* the fates of one save_config
SaveFates == {"ok", "error", "no_backup"}

\* a call of the manager returns or raises
ManagerReturned(op, args, root, stored, kept, failure, value) ==
    /\ manager' = root
    /\ file' = stored
    /\ backup' = kept
    /\ calls' = <<[op |-> op, instance |-> "manager", args |-> args,
                   again |-> FALSE, raised |-> failure, value |-> value]>>
    /\ UNCHANGED <<orm, validation, service, touched, remote, remote_interfaces,
                   docker, pc, req, idx, response, issued, raised, created, deployed>>

\* manager.add_vlan(interface, tag, description) called by a program
AddVlan ==
    \E interface \in ManagerParents, tag \in ManagerTags :
        LET r == add_vlan(manager, interface, tag, "lab", uuid4(uuids + 1))
        IN  /\ Len(IF manager = <<>> THEN <<>> ELSE vlans_of(manager[1])) < MaxManagerVlans
            /\ uuids' = IF r.raised = <<>> THEN uuids + 1 ELSE uuids
            /\ ManagerReturned("add_vlan", <<interface, tag>>, r.root, file, backup,
                               r.raised, r.value)

\* cli.py command_add_vlan (lines 147-158): add_vlan, then save_config
CommandAddVlan ==
    \E interface \in ManagerParents, tag \in ManagerTags, fate \in SaveFates :
        LET r == add_vlan(manager, interface, tag, "", uuid4(uuids + 1))
            saved == save_config(r.root, file, backup, fate)
        IN  /\ Len(IF manager = <<>> THEN <<>> ELSE vlans_of(manager[1])) < MaxManagerVlans
            /\ uuids' = IF r.raised = <<>> THEN uuids + 1 ELSE uuids
            /\ IF r.raised # <<>>
               THEN ManagerReturned("command_add_vlan", <<interface, tag>>, r.root,
                                    file, backup, r.raised, <<>>)
               ELSE ManagerReturned("command_add_vlan", <<interface, tag>>, r.root,
                                    saved.file, saved.backup, saved.raised,
                                    IF saved.raised = <<>> THEN r.value ELSE <<>>)

\* manager.get_vlans()
ManagerGetVlans ==
    LET r == manager_get_vlans(manager)
    IN  /\ uuids' = uuids
        /\ ManagerReturned("get_vlans", <<>>, manager, file, backup, r.raised,
                           r.value)

\* manager.save_config()
SaveConfig ==
    \E fate \in SaveFates :
        LET saved == save_config(manager, file, backup, fate)
        IN  /\ uuids' = uuids
            /\ ManagerReturned("save_config", <<>>, manager, saved.file,
                               saved.backup, saved.raised, <<>>)

InitManager ==
    /\ \E stored \in SampleDocuments :
           /\ manager = OPNsenseConfigManager(stored)
           /\ file = stored
    /\ backup = <<>>
    /\ service = [s \in Instances |->
                     [config_path |-> NoPath, api_config |-> Unset,
                      use_api |-> FALSE, root |-> <<>>]]
    /\ touched = [s \in Instances |-> [api |-> FALSE, document |-> FALSE]]
    /\ remote = <<>>
    /\ remote_interfaces = <<>>
    /\ uuids = 0
    /\ calls = <<>>
    /\ VLAN = <<>>
    /\ NetworkInterface = <<>>
    /\ Container = <<>>
    /\ PortForward = <<>>
    /\ DeploymentLog = <<>>
    /\ validation = <<>>
    /\ docker = [n \in Names |-> <<>>]
    /\ pc = [p \in Procs |-> "idle"]
    /\ req = [p \in Procs |-> <<>>]
    /\ idx = [p \in Procs |-> 0]
    /\ response = [p \in Procs |-> <<>>]
    /\ issued = [p \in Procs |-> <<>>]
    /\ raised = [p \in Procs |-> <<>>]
    /\ created = [p \in Procs |-> <<>>]
    /\ deployed = {}

NextManager == AddVlan \/ CommandAddVlan \/ ManagerGetVlans \/ SaveConfig

SpecManager == InitManager /\ [][NextManager]_vars

-----------------------------------------------------------------------------
(* Sample_Py xml_utils: MAC addresses.  A string is the sequence of its    *)
(* characters.                                                              *)

\* range(0, 12, 2): six pairs
MacPairs == 6

Digits == {"0", "1", "2", "3", "4", "5", "6", "7", "8", "9"}
LowerHex == {"a", "b", "c", "d", "e", "f"}
UpperHex == {"A", "B", "C", "D", "E", "F"}
\* [0-9A-Fa-f]
HexChars == Digits \cup LowerHex \cup UpperHex

\* str.lower() on one character
lower_unchanged(c) == c
lower(c) ==
    IF c = "A" THEN "a" ELSE IF c = "B" THEN "b" ELSE IF c = "C" THEN "c"
    ELSE IF c = "D" THEN "d" ELSE IF c = "E" THEN "e" ELSE IF c = "F" THEN "f"
    ELSE c

\* validate_mac_address (lines 227-238): ^([0-9A-Fa-f]{2}[:-]){5}([0-9A-Fa-f]{2})$
\* under re.match, where $ also matches before a final newline
validate_mac_address(mac) ==
    /\ Len(mac) = 3 * MacPairs - 1 \/ (Len(mac) = 3 * MacPairs /\ mac[3 * MacPairs] = "\n")
    /\ \A i \in 1..(3 * MacPairs - 1) :
           IF i % 3 = 0 THEN mac[i] \in {":", "-"} ELSE mac[i] \in HexChars

\* mac_clean[i:i+2] of a string shorter than i+2 is what is left of it
slice(s, from, to) ==
    IF from >= Len(s) THEN <<>>
    ELSE SubSeq(s, from + 1, IF to <= Len(s) THEN to ELSE Len(s))

\* normalize_mac_address (lines 241-256): the hex characters in lower case,
\* then ':'.join of the six slices of two
normalize_mac_address(mac) ==
    LET kept == SelectSeq(mac, LAMBDA c : c \in HexChars)
        mac_clean == [i \in 1..Len(kept) |-> lower(kept[i])]
        piece(p) == slice(mac_clean, 2 * (p - 1), 2 * p)
        joined[p \in 1..MacPairs] ==
            IF p = 1 THEN piece(1) ELSE joined[p - 1] \o <<":">> \o piece(p)
    IN  joined[MacPairs]

\* the strings the functions are called with: six pairs in either case with
\* either separator between them, with or without a final newline, and
\* strings that are no MAC address
MacPairTexts == {<<"a", "B">>, <<"0", "9">>}
MacSeparators == {":", "-"}
built(pairs, separators) ==
    LET text[p \in 1..MacPairs] ==
            IF p = 1 THEN pairs[1] ELSE text[p - 1] \o <<separators[p - 1]>> \o pairs[p]
    IN  text[MacPairs]
WellFormedMacs ==
    {built(pairs, separators) :
        pairs \in {f \in [1..MacPairs -> MacPairTexts] :
                      \A p \in 3..MacPairs : f[p] = <<"0", "9">>},
        separators \in [1..(MacPairs - 1) -> MacSeparators]}
MacStrings ==
    WellFormedMacs
    \cup {mac \o <<"\n">> : mac \in {built([p \in 1..MacPairs |-> <<"a", "B">>],
                                            [p \in 1..(MacPairs - 1) |-> "-"])}}
    \cup {<<>>, <<"a", "B">>, <<"a", "B", ".", "c", "d">>,
          <<"g", "g", ":", "0", "0", ":", "0", "0", ":", "0", "0", ":", "0", "0", ":", "0", "0">>}

\* a call of one of the two functions
MacReturned(op, mac, value) ==
    /\ calls' = <<[op |-> op, instance |-> "xml_utils", args |-> <<mac>>,
                   again |-> FALSE, raised |-> <<>>, value |-> <<value>>]>>
    /\ UNCHANGED <<orm, validation, manager, service, touched, file, backup, remote,
                   remote_interfaces, uuids, docker, pc, req, idx, response, issued,
                   raised, created, deployed>>

ValidateMac == \E mac \in MacStrings : MacReturned("validate_mac_address", mac,
                                                   validate_mac_address(mac))

NormalizeMac == \E mac \in MacStrings : MacReturned("normalize_mac_address", mac,
                                                    normalize_mac_address(mac))

\* the result of a normalisation normalised again
NormalizeAgain ==
    /\ calls # <<>>
    /\ calls[1].op = "normalize_mac_address"
    /\ MacReturned("normalize_mac_address", calls[1].value[1],
                   normalize_mac_address(calls[1].value[1]))

InitMac ==
    /\ InitManager
    /\ manager = NoManager

NextMac == ValidateMac \/ NormalizeMac \/ NormalizeAgain

SpecMac == InitMac /\ [][NextMac]_vars

-----------------------------------------------------------------------------
(* The workload endpoints over the Docker daemon: POST /containers and     *)
(* PUT /containers/{name}.  calls keeps the last call with its outcome.    *)

\* fate of update_container's requests: the first one that fails (the
\* listing, the stop, the removal, or one of create_container's), or none
UpdateFates == {"list_fails", "stop_fails", "remove_fails"} \cup DockerFates

\* ContainerCreate(...) of lines 180-188: a field of the update when it is
\* given, else the field of the ContainerOut that get_container built
recreated(name, held, data) ==
    LET container == container_out(name, held)
    IN  [name |-> name,
         network_config |-> IF data.network_config # <<>> THEN data.network_config[1]
                            ELSE container.network_config,
         ports |-> IF data.ports # <<>> THEN data.ports[1] ELSE container.ports]

\* update_container (lines 167-191) on the daemon's containers dk
update_container(dk, name, data, fate) ==
    LET stopped == [dk EXCEPT ![name] = <<[@[1] EXCEPT !.status = "exited"]>>]
        removed == [dk EXCEPT ![name] = <<>>]
    IN  IF fate = "list_fails"
        THEN [dk |-> dk, raised |-> <<"RequestException">>, value |-> <<>>]
        ELSE IF dk[name] = <<>>
        THEN [dk |-> dk, raised |-> <<"ValueError">>, value |-> <<>>]
        ELSE IF fate = "stop_fails"
        THEN [dk |-> dk, raised |-> <<"RequestException">>, value |-> <<>>]
        ELSE IF fate = "remove_fails"
        THEN [dk |-> stopped, raised |-> <<"RequestException">>, value |-> <<>>]
        ELSE create_container(removed, recreated(name, dk[name][1], data), fate)

\* the bodies posted and put
WorkloadCreates ==
    {d \in Deployments :
        /\ d.network_config.ip_address = "10.0.150.10"
        /\ d.network_config.mac_address = "aa:bb:cc:dd:ee:ff"
        /\ d.network_config.parent_interface = "igc2"
        /\ d.network_config.allow_internet
        /\ d.ports \in StoredPorts}
WorkloadUpdates ==
    [network_config : {<<>>, <<SampleRequest.network_config>>},
     ports : {<<>>, <<<<>>>>, <<SampleRequest.ports>>}]

\* a call of the container service has ended with outcome r
WorkloadReturned(op, args, r) ==
    /\ docker' = r.dk
    /\ calls' = <<[op |-> op, instance |-> "container", args |-> args,
                   again |-> FALSE, raised |-> r.raised, value |-> r.value]>>
    /\ UNCHANGED <<orm, validation, manager, service, touched, file, backup, remote,
                   remote_interfaces, uuids, pc, req, idx, response, issued, raised,
                   created, deployed>>

\* POST /containers (endpoints/container.py lines 39-42)
DoCreateContainer ==
    \E data \in WorkloadCreates, fate \in DockerFates :
        WorkloadReturned("create_container", <<data.name, data>>,
                         create_container(docker, data, fate))

\* PUT /containers/{name} (endpoints/container.py lines 45-48)
DoUpdateContainer ==
    \E name \in Names, data \in WorkloadUpdates, fate \in UpdateFates :
        WorkloadReturned("update_container", <<name, data>>,
                         update_container(docker, name, data, fate))

NextWorkloads == DoCreateContainer \/ DoUpdateContainer

\* the process has no appliance configured: the workload endpoints do not
\* use the configuration service
InitWorkloads ==
    /\ InitBackend
    /\ file = <<>>
    /\ \A s \in Instances : service[s].config_path = NoPath /\ service[s].api_config = Unset

SpecWorkloads == InitWorkloads /\ [][NextWorkloads]_vars


-----------------------------------------------------------------------------
(* Properties of the conflict detector (SpecDetect) *)

\* what the request of d would forward host port `port` to
own_destination(d, port, f) ==
    /\ f.dst_ip = d.network_config.ip_address
    /\ f.dst_port = ToString(port.container_port)

other_workload_claims(d, port) ==
    \E i \in 1..Len(Container) :
        /\ Container[i].name # d.name
        /\ ports_contains(Container[i].ports, port.host_port, port.protocol)

\* C3 (as claimed): the 'vlan' category is reported if and only if SOME known
\* VLAN with the requested tag has a description other than the marker
\* "Container <workload name> VLAN".
C3_VlanConflictIffSomeForeignVlan ==
    \A d \in DetectorInputs :
        ("vlan" \in DOMAIN detect_conflicts(d))
        <=> \E i \in 1..Len(VLAN) :
                /\ VLAN[i].vlan_tag = d.network_config.vlan_id
                /\ VLAN[i].description # VlanMarker(d.name)

\* C4: the 'ip' category is reported if and only if the requested address is
\* the address of some interface or the reserved address of a workload with
\* another name; the workload's own record never counts.
C4_IpConflictIff ==
    \A d \in DetectorInputs :
        ("ip" \in DOMAIN detect_conflicts(d))
        <=> \/ \E i \in 1..Len(NetworkInterface) :
                   NetworkInterface[i].ipaddr = d.network_config.ip_address
            \/ \E i \in 1..Len(Container) :
                   /\ Container[i].ip_address = d.network_config.ip_address
                   /\ Container[i].name # d.name

\* C4 witness: a validation has reported the address as held both by an
\* interface and by another workload.
C4_Witness ==
    /\ validation # <<>>
    /\ ~validation[1].valid
    /\ "ip" \in DOMAIN validation[1].conflicts
    /\ Len(validation[1].conflicts["ip"]) = 2
    /\ Len(Container) >= 1 /\ Len(NetworkInterface) >= 1

\* C5: the 'mac' category is reported if and only if the requested MAC is held
\* by a workload with another name; the workload's own record never counts.
C5_MacConflictIff ==
    \A d \in DetectorInputs :
        ("mac" \in DOMAIN detect_conflicts(d))
        <=> \E i \in 1..Len(Container) :
                /\ Container[i].mac_address = d.network_config.mac_address
                /\ Container[i].name # d.name

\* C5 witness: a validation has reported a MAC conflict while two workloads,
\* the first of them not the offender's namesake, hold the same MAC.
C5_Witness ==
    /\ validation # <<>>
    /\ ~validation[1].valid
    /\ "mac" \in DOMAIN validation[1].conflicts
    /\ Len(Container) = 2
    /\ Container[1].mac_address = Container[2].mac_address

\* C6 (as claimed): a port mapping is reported if and only if an ENABLED
\* port-forward for the same (host port, protocol) points somewhere ELSE than
\* the request's own destination, or another workload claims the pair.
C6_PortConflictIffActiveForeignForward ==
    \A d \in DetectorInputs :
        \A k \in 1..Len(d.ports) :
            (port_conflicts_of(d, d.ports[k]) # <<>>)
            <=> \/ \E i \in 1..Len(PortForward) :
                       /\ PortForward[i].src_port = ToString(d.ports[k].host_port)
                       /\ PortForward[i].protocol = d.ports[k].protocol
                       /\ PortForward[i].enabled
                       /\ ~own_destination(d, d.ports[k], PortForward[i])
                \/ other_workload_claims(d, d.ports[k])

-----------------------------------------------------------------------------
(* Properties of the deploy endpoint and the orchestrator (Spec) *)

\* what a deployment can change: the configuration backends and the daemon
resources == <<service, file, remote, uuids, docker>>

\* C1: a step that takes up a request calls the detector first, and when the
\* detector's report for the request is not empty the step changes neither
\* backend nor daemon and answers success=false with the report; any step
\* that does change a backend or the daemon belongs to a request whose
\* report was empty.
C1_DetectionBeforeMutation ==
    [][\A p \in Sequential :
          /\ pc[p] \in {"idle", "done"} =>
                 /\ issued'[p] = <<"validate_deployment">>
                 /\ DOMAIN detect_conflicts(req'[p][1]) # {} =>
                        /\ resources' = resources
                        /\ pc'[p] = "done"
                        /\ response'[p] =
                               <<[success |-> FALSE,
                                  message |-> "Deployment would conflict with existing configuration",
                                  conflicts |-> detect_conflicts(req'[p][1])]>>
          /\ resources' # resources =>
                 /\ pc[p] \notin {"idle", "done"}
                 /\ issued[p][1] = "validate_deployment"
                 /\ DOMAIN detect_conflicts(req[p][1]) = {}]_vars

\* a request has been rejected with its report after an earlier one had
\* created a VLAN and a workload
C1_Witness ==
    \E p \in Sequential :
        /\ pc[p] = "done"
        /\ response[p] # <<>>
        /\ ~response[p][1].success
        /\ issued[p] = <<"validate_deployment">>
        /\ DOMAIN response[p][1].conflicts # {}
        /\ uuids = 1
        /\ deployed # {}

\* two workloads share the address, the hardware address or a host port
shares_ip(a, data) == a.ip_address = data.network_config.ip_address
shares_mac(a, data) == a.mac_address = data.network_config.mac_address
shares_port(a, data) ==
    \E i \in 1..Len(a.ports), j \in 1..Len(data.ports) :
        /\ a.ports[i].host_port = data.ports[j].host_port
        /\ a.ports[i].protocol = data.ports[j].protocol

\* C2: once a workload has been deployed with success, a request taken up
\* afterwards for another name that uses its IP, its MAC or one of its
\* (host port, protocol) pairs is answered with a conflict report naming the
\* ip, mac or port category.
C2_LaterSharingRequestRejected ==
    \A p \in Sequential, a \in deployed :
        (/\ req[p] # <<>>
         /\ req[p][1].name # a.name
         /\ shares_ip(a, req[p][1]) \/ shares_mac(a, req[p][1]) \/ shares_port(a, req[p][1]))
        => /\ pc[p] = "done"
           /\ issued[p] = <<"validate_deployment">>
           /\ DOMAIN response[p][1].conflicts \cap {"ip", "mac", "port"} # {}

\* the VLANs the active backend of instance s holds
vlans_held(s) ==
    IF service[s].use_api THEN remote
    ELSE IF file = <<>> \/ file[1].vlans = <<>> THEN <<>>
    ELSE file[1].vlans[1]

\* C7: when the first VLAN-creating deployment, with internet access and one
\* port mapping, has answered success, the backend holds one VLAN, one
\* static mapping on "opt<vlan id>", one firewall rule and one port forward,
\* and the workload runs.
C7_EndToEndCreatesEverySubResource ==
    \A p \in Sequential :
        (/\ pc[p] = "done"
         /\ response[p][1].success
         /\ req[p][1].network_config.allow_internet
         /\ Len(req[p][1].ports) = 1
         /\ \E k \in 1..Len(issued[p]) : issued[p][k] = "create_vlan"
         /\ uuids = 1)
        => /\ Len(vlans_held("container")) = 1
           /\ Len(get_static_mappings(service["container"], Store("container"),
                                      interface_name(req[p][1])).value[1]) = 1
           /\ Len(get_firewall_rules(service["container"], Store("container")).value[1]) = 1
           /\ Len(get_port_forwards(service["container"], Store("container")).value[1]) = 1
           /\ docker[req[p][1].name] # <<>>

\* the calls of a deployment none of whose steps leaves through the outer
\* handler, with and without the creation of the VLAN
RECURSIVE repeat(_, _)
repeat(x, n) == IF n = 0 THEN <<>> ELSE <<x>> \o repeat(x, n - 1)
steps_after_vlan(data) ==
    <<"create_static_mapping">>
    \o (IF data.network_config.allow_internet THEN <<"create_firewall_rule">> ELSE <<>>)
    \o repeat("create_port_forward", Len(data.ports))
    \o <<"create_container", "apply_firewall_changes", "apply_dhcp_changes">>
complete_runs(data) ==
    {<<"validate_deployment", "get_vlans">> \o steps_after_vlan(data),
     <<"validate_deployment", "get_vlans", "create_vlan">> \o steps_after_vlan(data)}

only_not_implemented(p) ==
    /\ raised[p] # <<>>
    /\ \A k \in 1..Len(raised[p]) :
           /\ raised[p][k].kind = "NotImplementedError"
           /\ raised[p][k].step \in GuardedSteps

\* C8: a deployment whose steps raised nothing but NotImplementedError, from
\* the static mapping, the egress rule, a port forward or apply, is never
\* aborted; when it ends, every step of the request has been issued, the
\* workload is on the daemon and the answer is success=true.
C8_NotImplementedIsAWarning ==
    \A p \in Sequential :
        only_not_implemented(p) =>
            /\ pc[p] # "failed"
            /\ pc[p] = "done" =>
                   /\ issued[p] \in complete_runs(req[p][1])
                   /\ docker[req[p][1].name] # <<>>
                   /\ docker[req[p][1].name][1].status = "running"
                   /\ response[p][1].success

\* a deployment with internet access and a port mapping has ended with
\* success although three of its steps raised NotImplementedError
C8_Witness ==
    \E p \in Sequential :
        /\ pc[p] = "done"
        /\ only_not_implemented(p)
        /\ Len(raised[p]) = 3
        /\ response[p][1].success

\* the exceptions of the request other than a NotImplementedError of a
\* step that may be skipped
escaped(p) ==
    SelectSeq(raised[p], LAMBDA x : ~(/\ x.kind = "NotImplementedError"
                                      /\ x.step \in GuardedSteps))

\* the backend of instance s holds the VLAN labelled for the workload
holds_vlan_of(s, name) ==
    \E k \in 1..Len(vlans_held(s)) :
        \/ get(vlans_held(s)[k].children, "descr", "") = VlanMarker(name)
        \/ get(vlans_held(s)[k].children, "description", "") = VlanMarker(name)

\* C9: once a step has raised anything the step's own handler does not
\* catch, that step is the last call of the deployment: the workload is
\* created only if the failing step is create_container itself, apply is
\* not called, the exception leaves the orchestrator and the endpoint
\* answers success=false with it; a VLAN the deployment had created stays
\* in the backend.
C9_OtherErrorAborts ==
    \A p \in Sequential :
        escaped(p) # <<>> =>
            /\ Len(escaped(p)) = 1
            /\ pc[p] \in {"failed", "done"}
            /\ issued[p][Len(issued[p])] = escaped(p)[1].step
            /\ raised[p][Len(raised[p])] = escaped(p)[1]
            /\ escaped(p)[1].step # "create_container" =>
                   \A k \in 1..Len(issued[p]) : issued[p][k] # "create_container"
            /\ \A k \in 1..Len(issued[p]) :
                   issued[p][k] \notin {"apply_firewall_changes", "apply_dhcp_changes"}
            /\ pc[p] = "done" =>
                   response[p] = <<[success |-> FALSE,
                                    message |-> "Failed to deploy container: "
                                                \o escaped(p)[1].kind]>>
            /\ (/\ escaped(p)[1].step = "create_container"
                /\ \E k \in 1..Len(issued[p]) : issued[p][k] = "create_vlan")
               => holds_vlan_of("container", req[p][1].name)

\* the daemon refused the workload after the deployment had created its
\* VLAN: the endpoint has answered the failure and the VLAN is still held
C9_Witness ==
    \E p \in Sequential :
        /\ pc[p] = "done"
        /\ escaped(p) # <<>>
        /\ escaped(p)[1].step = "create_container"
        /\ \E k \in 1..Len(issued[p]) : issued[p][k] = "create_vlan"
        /\ holds_vlan_of("container", req[p][1].name)
        /\ docker[req[p][1].name] = <<>>

-----------------------------------------------------------------------------
(* Properties of the configuration service (SpecBackend) *)

\* C10: an instance is in remote mode exactly when URL, key and secret are
\* all set, whether or not a document path is configured; a remote-mode
\* instance has never opened the document and any other instance has never
\* called the remote API.
C10_OneBackendPerInstance ==
    \A s \in Instances :
        /\ service[s].use_api <=>
               (/\ service[s].api_config.url # ""
                /\ service[s].api_config.key # ""
                /\ service[s].api_config.secret # "")
        /\ service[s].use_api => ~touched[s].document /\ service[s].root = <<>>
        /\ ~service[s].use_api => ~touched[s].api /\ remote = <<>>

\* a remote-mode instance constructed with a document path whose document
\* exists has created a VLAN on the appliance
C10_Witness ==
    \E s \in Instances :
        /\ service[s].use_api
        /\ service[s].config_path = ConfigPath
        /\ file # <<>>
        /\ touched[s].api
        /\ remote # <<>>

-----------------------------------------------------------------------------
(* Properties of the configuration service's methods (SpecService,         *)
(* SpecInterfaces)                                                          *)

\* neither a populated remote endpoint nor a document path is configured
inert(s) == ~service[s].use_api /\ service[s].config_path = NoPath

\* the instance works on a document
document_mode(s) == ~service[s].use_api /\ service[s].config_path # NoPath

\* C11: on an instance with neither a populated remote endpoint nor a
\* document path, every call of the configuration service ends with an
\* exception; none returns a result.
C11_InertBackendFailsEveryCall ==
    (calls # <<>> /\ inert(calls[1].instance)) => calls[1].raised # <<>>

\* C12: on the document backend, when create_vlan has returned a VLAN,
\* reading it back by its identifier returns a record equal to it in every
\* field, and the sections the service does not interpret are those of the
\* stored document.
C12_DocumentRoundTrip ==
    (/\ calls # <<>>
     /\ document_mode(calls[1].instance)
     /\ calls[1].op = "create_vlan"
     /\ calls[1].raised = <<>>)
    => LET s == calls[1].instance
           back == get_vlan(service[s], Store(s), calls[1].value[1].uuid, "ok")
       IN  /\ back.raised = <<>>
           /\ back.value[1] = calls[1].value[1]
           /\ service[s].root[1].foreign = file[1].foreign

\* the document instance s works on at its next call: its tree, read from
\* the file first when the tree is empty; <<>> when there is none to read
working_document(s) ==
    IF ~root_falsy(service[s].root) THEN service[s].root
    ELSE IF service[s].config_path # NoPath THEN file
    ELSE <<>>

\* the elements differ at most in the enable child of the one named name
only_enable_differs(before, after, name) ==
    /\ Len(after) = Len(before)
    /\ \A k \in 1..Len(before) :
           /\ after[k].tag = before[k].tag
           /\ before[k].tag # name => after[k] = before[k]
           /\ DOMAIN after[k].children \subseteq DOMAIN before[k].children \cup {"enable"}
           /\ \A key \in DOMAIN before[k].children \ {"enable"} :
                  /\ key \in DOMAIN after[k].children
                  /\ after[k].children[key] = before[k].children[key]

manager_vlans == IF manager = <<>> THEN <<>> ELSE vlans_of(manager[1])

\* C14: every VLAN the manager's tree holds has a tag in [1,4094] and the
\* derived name parent + "_vlan" + tag, and an add_vlan with a tag outside
\* [1,4094] raises.
C14_TagRangeEnforced ==
    /\ \A k \in 1..Len(manager_vlans) :
           /\ \E tag \in 1..4094 :
                  /\ manager_vlans[k].children["tag"] = ToString(tag)
                  /\ manager_vlans[k].children["vlanif"] =
                         manager_vlans[k].children["if"] \o "_vlan" \o ToString(tag)
    /\ (/\ calls # <<>>
        /\ calls[1].op \in {"add_vlan", "command_add_vlan"}
        /\ calls[1].args[2] \notin 1..4094)
       => calls[1].raised # <<>>

\* no two elements of the section carry the same name
unique_names(elements) ==
    \A j, k \in 1..Len(elements) : elements[j].tag = elements[k].tag => j = k

\* C15: on the document backend a create_interface whose name is already
\* in the interfaces section raises the already-exists error and leaves
\* the instance's tree and the stored file as they were; the interface
\* names of the tree and of the stored file are always pairwise distinct.
C15_DuplicateInterfaceRejected ==
    /\ [](\A s \in Endpoints :
             /\ service[s].root # <<>> => unique_names(interfaces_of(service[s].root[1]))
             /\ file # <<>> => unique_names(interfaces_of(file[1])))
    /\ [][(/\ calls' # <<>>
           /\ calls'[1].op = "create_interface"
           /\ document_mode(calls'[1].instance)
           /\ working_document(calls'[1].instance) # <<>>
           /\ position(interfaces_of(working_document(calls'[1].instance)[1]),
                       calls'[1].args[1].name) # 0)
          => /\ calls'[1].raised = <<"ValueError: Interface already exists">>
             /\ service'[calls'[1].instance].root = working_document(calls'[1].instance)
             /\ file' = file]_vars

\* a create_interface was refused because the name exists
C15_Witness ==
    /\ calls # <<>>
    /\ calls[1].op = "create_interface"
    /\ document_mode(calls[1].instance)
    /\ calls[1].raised = <<"ValueError: Interface already exists">>
    /\ position(interfaces_of(service[calls[1].instance].root[1]),
                calls[1].args[1].name) # 0

\* the (parent interface, tag) pair a <vlan> element carries, under the
\* names create_vlan writes or under those the appliance writes
pair_of(element) ==
    <<get(element.children, "parent_if", get(element.children, "if", "")),
      get(element.children, "vlan_tag", get(element.children, "tag", ""))>>

\* C16: on the document backend no two VLANs of the instance's tree carry
\* the same (parent interface, tag) pair.
C16_ParentTagPairUnique ==
    \A s \in Endpoints :
        (document_mode(s) /\ service[s].root # <<>>) =>
            \A j, k \in 1..Len(vlans_of(service[s].root[1])) :
                pair_of(vlans_of(service[s].root[1])[j])
                    = pair_of(vlans_of(service[s].root[1])[k]) => j = k

\* the errors that say the target or its section is not in the document
NotFound ==
    {<<"ValueError: VLAN not found">>, <<"ValueError: No VLANs found in configuration">>,
     <<"ValueError: Interface not found">>,
     <<"ValueError: No interfaces found in configuration">>}

\* C17: on the document backend get_vlan, update_vlan and delete_vlan of an
\* identifier that no VLAN of the document carries raise a not-found error
\* and leave the instance's tree and the stored file as they were; get_vlans
\* on a document without a vlans section returns the empty list.
C17_AbsentTargetNotFound ==
    [][(/\ calls' # <<>>
        /\ document_mode(calls'[1].instance)
        /\ working_document(calls'[1].instance) # <<>>)
       => LET s == calls'[1].instance
              before == working_document(s)
          IN  /\ (/\ calls'[1].op \in {"get_vlan", "update_vlan", "delete_vlan"}
                  /\ vlan_position(vlans_of(before[1]), calls'[1].args[1]) = 0)
                 => /\ calls'[1].raised \in NotFound
                    /\ service'[s].root = before
                    /\ file' = file
              /\ (calls'[1].op = "get_vlans" /\ before[1].vlans = <<>>)
                 => /\ calls'[1].raised = <<>>
                    /\ calls'[1].value = << <<>> >>]_vars

\* C18: two reads of the same interface one after the other, with no call
\* between them, return the same identifier.
C18_IdentifierStableAcrossReads ==
    [][(/\ calls # <<>> /\ calls' # <<>>
        /\ calls[1].op = "get_interface" /\ calls'[1].op = "get_interface"
        /\ calls[1].instance = calls'[1].instance
        /\ calls[1].args = calls'[1].args
        /\ calls[1].raised = <<>> /\ calls'[1].raised = <<>>)
       => calls'[1].value[1].uuid = calls[1].value[1].uuid]_vars

\* C19: on the remote backend a create_vlan or update_vlan that returns has
\* left its VLAN on the appliance, and a delete_vlan that returns has
\* removed it and returns true: a rejected mutation never returns.
C19_RemoteRejectionRaises ==
    (/\ calls # <<>>
     /\ service[calls[1].instance].use_api
     /\ calls[1].raised = <<>>)
    => /\ calls[1].op \in {"create_vlan", "update_vlan"}
          => vlan_position(remote, calls[1].value[1].uuid) # 0
       /\ calls[1].op = "delete_vlan"
          => /\ calls[1].value = <<TRUE>>
             /\ vlan_position(remote, calls[1].args[1]) = 0

ApplyOperations == {"apply_firewall_changes", "apply_dhcp_changes"}

\* C20: every call of apply_firewall_changes or apply_dhcp_changes returns
\* the success result and leaves the instance's tree, the stored file and
\* the appliance's VLANs and interfaces as they were; called right after a
\* call of the same operation it returns the same result again.
C20_ApplyIsIdempotent ==
    [][(calls' # <<>> /\ calls'[1].op \in ApplyOperations)
       => /\ calls'[1].raised = <<>>
          /\ calls'[1].value = <<[success |-> TRUE, message |-> "Changes applied"]>>
          /\ UNCHANGED <<service, file, remote, remote_interfaces>>
          /\ (/\ calls # <<>>
              /\ calls[1].op = calls'[1].op
              /\ calls[1].instance = calls'[1].instance)
             => calls'[1].value = calls[1].value]_vars

\* apply_firewall_changes called twice in a row on a backend that holds a
\* VLAN
C20_Witness ==
    /\ calls # <<>>
    /\ calls[1].op = "apply_firewall_changes"
    /\ calls[1].again
    /\ calls[1].raised = <<>>
    /\ calls[1].value[1].success
    /\ remote # <<>> \/ (file # <<>> /\ vlans_of(file[1]) # <<>>)

-----------------------------------------------------------------------------
(* Properties of the MAC helpers (SpecMac) *)

\* the six pairs of a valid MAC string in lower case, colons between them
canonical(mac) ==
    [i \in 1..(3 * MacPairs - 1) |->
        IF i % 3 = 0 THEN ":"
        ELSE IF mac[i] \in UpperHex
             THEN CHOOSE c \in LowerHex : <<mac[i], c>> \in
                      {<<"A", "a">>, <<"B", "b">>, <<"C", "c">>, <<"D", "d">>,
                       <<"E", "e">>, <<"F", "f">>}
             ELSE mac[i]]

\* C21: for every string validate_mac_address accepts, normalize_mac_address
\* returns its six pairs in lower case separated by colons, and normalising
\* that result returns it unchanged.
C21_NormalizeCanonicalAndIdempotent ==
    (/\ calls # <<>>
     /\ calls[1].op = "normalize_mac_address"
     /\ validate_mac_address(calls[1].args[1]))
    => /\ calls[1].value[1] = canonical(calls[1].args[1])
       /\ normalize_mac_address(calls[1].value[1]) = calls[1].value[1]

\* a valid address in mixed case with hyphens was normalised
C21_Witness ==
    /\ calls # <<>>
    /\ calls[1].op = "normalize_mac_address"
    /\ validate_mac_address(calls[1].args[1])
    /\ calls[1].args[1][3] = "-"
    /\ calls[1].args[1][2] = "B"
    /\ calls[1].value[1] # calls[1].args[1]
    /\ calls[1].value[1][2] = "b"
    /\ calls[1].value[1][3] = ":"

-----------------------------------------------------------------------------
(* Further properties of a deployment (Spec) *)

is_prefix(a, b) == Len(a) <= Len(b) /\ SubSeq(b, 1, Len(a)) = a

\* the call a handler at position at is about to make
about_to_call(at) == IF at = "apply" THEN "apply_firewall_changes" ELSE at

current_vlans(s) ==
    IF service[s].use_api THEN remote
    ELSE IF working_document(s) = <<>> THEN <<>>
    ELSE vlans_of(working_document(s)[1])
holds_pair(data) ==
    \E k \in 1..Len(current_vlans("container")) :
        pair_of(current_vlans("container")[k])
            = <<data.network_config.parent_interface,
                ToString(data.network_config.vlan_id)>>

\* the backend could not be reached or read
BackendFailures == {"RequestException", "TypeError", "FileNotFoundError", "OSError"}

\* C23: when the VLAN listing of a deployment has reached the backend, the
\* deployment goes on to create a VLAN if the backend holds none with the
\* request's (parent interface, tag), and goes on to the static mapping
\* without creating one if it holds one; the backend never holds two VLANs
\* with the pair of a request.
C23_EnsureVlanCreatesIffAbsent ==
    [][\A p \in Sequential :
          (/\ pc[p] = "get_vlans"
           /\ pc'[p] # "get_vlans"
           /\ ~(/\ raised'[p] # raised[p]
                /\ raised'[p][Len(raised'[p])].kind \in BackendFailures))
          => pc'[p] = IF holds_pair(req[p][1]) THEN "create_static_mapping"
                      ELSE "create_vlan"]_vars

-----------------------------------------------------------------------------
(* Properties of two deployments at the same time (SpecRace) *)

\* the VLANs of the backend that carry the pair of the request
with_pair(data) ==
    SelectSeq(current_vlans("container"),
              LAMBDA element :
                  pair_of(element) = <<data.network_config.parent_interface,
                                       ToString(data.network_config.vlan_id)>>)

\* C24: nothing at write time keeps a deployment that has passed the VLAN
\* check from writing its VLAN: its create_vlan either returns, and the
\* backend then holds one more VLAN with the request's (parent, tag) than
\* before, however many it held, or fails only because the backend could not
\* be reached or written or answered with a failure; and a deployment is
\* never refused for a conflict with the other one.
C24_NoWriteTimeCheck ==
    [][\A p \in Procs :
          /\ (pc[p] = "create_vlan" /\ pc'[p] # "create_vlan")
             => IF raised'[p] = raised[p]
                THEN Len(with_pair(req[p][1])') = Len(with_pair(req[p][1])) + 1
                ELSE raised'[p][Len(raised'[p])].kind
                         \in BackendFailures \cup {"ValueError"}
          /\ (pc[p] = "idle" /\ pc'[p] # "idle") => pc'[p] = "get_vlans"]_vars

\* both deployments passed the detector and the VLAN check, both wrote, and
\* the backend holds two VLANs with the same (parent, tag)
C24_Witness ==
    /\ \A p \in Procs :
           /\ req[p] # <<>>
           /\ Len(issued[p]) >= 3
           /\ SubSeq(issued[p], 1, 3) = <<"validate_deployment", "get_vlans", "create_vlan">>
           /\ ~\E k \in 1..Len(raised[p]) : raised[p][k].step = "create_vlan"
    /\ \A p \in Procs : Len(with_pair(req[p][1])) = 2

-----------------------------------------------------------------------------
(* Properties of two instances on one stored document (SpecBackend) *)

\* the VLAN elements of the stored document
stored_vlans == IF file = <<>> THEN <<>> ELSE vlans_of(file[1])

\* C25: no instance works on a tree of its own and no write is lost: when
\* an instance has saved the document, the next operation of every other
\* instance on that document works on the document as saved, and every VLAN
\* the stored document held before a save is in it after the save.
C25_NoStaleTreeNoLostWrite ==
    [][file' # file
       => /\ \A s \in Instances :
                 document_mode(s)' => working_document(s)' = file'
          /\ \A k \in 1..Len(stored_vlans) :
                 \E j \in 1..Len(stored_vlans') : stored_vlans'[j] = stored_vlans[k]]_vars

-----------------------------------------------------------------------------
(* Properties of the derived name of a VLAN (SpecService) *)

\* f"{parent_if}_vlan{vlan_tag}" of a record read back
derived_name(vlan) == vlan.parent_if \o "_vlan" \o ToString(vlan.vlan_tag)

\* C26: on the document backend, the VLAN that create_vlan, update_vlan or
\* get_vlan returns carries the derived name of its own parent interface
\* and tag.
C26_DerivedNameFollowsParentAndTag ==
    (/\ calls # <<>>
     /\ document_mode(calls[1].instance)
     /\ calls[1].op \in {"create_vlan", "update_vlan", "get_vlan"}
     /\ calls[1].raised = <<>>)
    => calls[1].value[1].vlanif = derived_name(calls[1].value[1])

-----------------------------------------------------------------------------
(* Properties of the deployment log (Spec) *)

\* the deployment of p failed in an orchestration step: the exception went
\* through the outer handler of deploy_container and the endpoint answered
failed_in_step(p) ==
    /\ pc[p] = "done"
    /\ response[p] # <<>>
    /\ ~response[p][1].success
    /\ raised[p] # <<>>
    /\ handler(raised[p][Len(raised[p])].step, raised[p][Len(raised[p])].kind)
           # "warning"

\* C27: once a deployment has failed in an orchestration step, the table
\* DeploymentLog holds an entry with status "failed".
C27_FailureIsLogged ==
    \A p \in Procs :
        failed_in_step(p)
        => \E k \in 1..Len(DeploymentLog) : DeploymentLog[k].status = "failed"

-----------------------------------------------------------------------------
(* Properties of saving the document (SpecService) *)

\* the methods of the configuration service that change the document
MutatingCalls ==
    {"create_interface", "update_interface", "delete_interface",
     "create_vlan", "update_vlan", "delete_vlan"}

\* the call that ends in this step is a mutating call of document instance
\* s that returns (every step of the specification is the end of a call)
mutation_returns(s) ==
    /\ document_mode(s)
    /\ calls' # <<>>
    /\ calls'[1].instance = s
    /\ calls'[1].op \in MutatingCalls
    /\ calls'[1].raised = <<>>

\* C28: when a mutating call of the document backend returns, the stored
\* document is the instance's whole tree as written, and the document that
\* was stored before the call is kept as the backup copy.
C28_MutationPersistedWithBackup ==
    [][\A s \in Instances :
          mutation_returns(s)
          => /\ file' = <<written(service'[s].root[1])>>
             /\ file # <<>> => backup' = file]_vars

-----------------------------------------------------------------------------
(* Properties of a mutating call that fails (SpecInterfaces) *)

\* the call that ends in this step is a mutating call of document instance
\* s that raises
mutation_raises(s) ==
    /\ document_mode(s)
    /\ calls' # <<>>
    /\ calls'[1].instance = s
    /\ calls'[1].op \in MutatingCalls
    /\ calls'[1].raised # <<>>

\* C29: a mutating call of the document backend that raises leaves the
\* document the instance works on and the stored document as they were
\* before the call.
C29_FailedMutationLeavesNoTrace ==
    [][\A s \in Instances :
          mutation_raises(s)
          => /\ working_document(s)' = working_document(s)
             /\ file' = file]_vars

-----------------------------------------------------------------------------
(* Properties of a workload update (SpecWorkloads) *)

\* the workload an update asks for: every field the update gives, and the
\* old workload's own ports and network where it gives none
recreated_from_held(name, held, data) ==
    [name |-> name,
     network_config |-> IF data.network_config # <<>> THEN data.network_config[1]
                        ELSE [_extract_network_config EXCEPT
                                  !.vlan_id = IF held.network_mode = "vlan150"
                                              THEN 150 ELSE 100],
     ports |-> IF data.ports # <<>> THEN data.ports[1] ELSE held.ports]

\* C30: when update_container has ended, returned or raised, on a name the
\* daemon held a workload for, the daemon still holds a workload of that
\* name; and when it has returned, the workload carries the ports and the
\* network of the update where the update gives them and those of the old
\* workload where it does not.
C30_UpdateKeepsWorkload ==
    [][(/\ calls' # <<>>
        /\ calls'[1].op = "update_container"
        /\ docker[calls'[1].args[1]] # <<>>)
       => LET name == calls'[1].args[1]
              data == calls'[1].args[2]
              wanted == recreated_from_held(name, docker[name][1], data)
          IN  /\ docker'[name] # <<>>
              /\ calls'[1].raised = <<>>
                 => /\ docker'[name][1].ports = wanted.ports
                    /\ docker'[name][1].network_mode = network_mode(wanted)]_vars

=============================================================================
